---------------------------- MODULE Spec2Model ----------------------------
(***************************************************************************)
(* A state-machine model of the mailtri router core:                       *)
(*   - ParsingErrorHandler   (src/unnamed/part_003, lines 1-139)           *)
(*   - AttachmentProcessor   (src/src/attachment-processor.ts)             *)
(*   - EmailParser           (src/src/email-parser.ts)                     *)
(*   - processEmail pipeline (src/unnamed/part_003, lines 336-563)         *)
(*                                                                         *)
(* Strings and byte buffers are finite sequences of tokens.  A token is    *)
(* one character (":", " ", "<", ...) or one indivisible word ("From",     *)
(* "B@X", ...); the length of a buffer is its number of tokens.            *)
(* JavaScript's undefined and '' are both falsy; wherever the code only    *)
(* tests truthiness both are the empty sequence <<>>.  An optional field   *)
(* whose absence is observable is None (<<>>) or Some(v) (<<v>>).          *)
(***************************************************************************)
EXTENDS Naturals, Sequences, FiniteSets, TLC

VARIABLES
  clock,      \* Date.now(): milliseconds, advanced by Tick
  hpc,        \* ParsingErrorHandler.handleParsingError: position
  hdata,      \* its emailData argument
  hfault,     \* whether extractBasicInfo is made to reject (test double)
  htier1,     \* what extractBasicInfo returned, when it returned
  hout,       \* what handleParsingError returned or raised
  apc,        \* AttachmentProcessor.processAttachments: position
  abatch,     \* its attachments argument
  aidx,       \* index of the attachment the loop is at
  aresults,   \* its results list
  aout,       \* what a direct processAttachment call returned or raised
  ppc,        \* EmailParser.parseEmail: position
  praw,       \* size of its rawEmail argument
  pmime,      \* what simpleParser produced (or that it rejected)
  pout,       \* what parseEmail returned or raised
  rpc,        \* processEmail: position
  rin,        \* its emailData argument and the environment's answers
  rst,        \* its local variables
  rlog,       \* the externally visible effects, in order
  calls       \* the calls in flight on the shared instances, by call id

hvars == <<hpc, hdata, hfault, htier1, hout>>
avars == <<apc, abatch, aidx, aresults, aout>>
pvars == <<ppc, praw, pmime, pout>>
rvars == <<rpc, rin, rst, rlog>>
vars == <<clock, hvars, avars, pvars, rvars, calls>>

(***************************************************************************)
(* Bounds of the model.                                                    *)
(***************************************************************************)
MaxClock == 2        \* Date.now() ranges over 1..MaxClock
MaxLines == 2        \* lines of a raw email handed to the error handler
MaxBatch == 2        \* attachments in one processAttachments call
MaxToList == 2       \* entries of a decomposed address list
MaxCalls == 2        \* calls in flight at the same time

None == <<>>
Some(v) == <<v>>

(***************************************************************************)
(* String primitives on token sequences.                                   *)
(***************************************************************************)
\* White space as String.prototype.trim and the regex class \s see it.
IsSpace(t) == t \in {" ", "\r", "\n", "\t"}

\* String.prototype.toLowerCase, token by token.
LowerTok(t) ==
  CASE t = "From" -> "from"
    [] t = "FROM" -> "from"
    [] t = "To" -> "to"
    [] t = "Subject" -> "subject"
    [] t = "Date" -> "date"
    [] t = "Message-ID" -> "message-id"
    [] t = "B@X" -> "b@x"
    [] t = "A@X" -> "a@x"
    [] t = "Bob" -> "bob"
    [] t = "Re" -> "re"
    [] t = "RE" -> "re"
    [] t = "Fwd" -> "fwd"
    [] t = "FW" -> "fw"
    [] t = "SCRIPT" -> "script"
    [] t = "Style" -> "style"
    [] t = "X-Tag" -> "x-tag"
    [] OTHER -> t

ToLowerCase(s) == [i \in 1..Len(s) |-> LowerTok(s[i])]

RECURSIVE TrimStart(_)
TrimStart(s) ==
  IF s # <<>> /\ IsSpace(Head(s)) THEN TrimStart(Tail(s)) ELSE s

RECURSIVE TrimEnd(_)
TrimEnd(s) ==
  IF s # <<>> /\ IsSpace(s[Len(s)]) THEN TrimEnd(SubSeq(s, 1, Len(s) - 1)) ELSE s

\* String.prototype.trim
Trim(s) == TrimEnd(TrimStart(s))

\* String.prototype.includes for a one-token needle
Includes(s, t) == \E i \in 1..Len(s) : s[i] = t

\* String.prototype.indexOf for a one-token needle (1-based; 0 when absent)
IndexOf(s, t) ==
  IF Includes(s, t) THEN CHOOSE i \in 1..Len(s) : s[i] = t /\ \A j \in 1..(i - 1) : s[j] # t
  ELSE 0

\* String.prototype.split on a one-token separator: always at least one piece.
RECURSIVE Split(_, _)
Split(s, sep) ==
  IF ~Includes(s, sep) THEN <<s>>
  ELSE LET i == IndexOf(s, sep)
       IN <<SubSeq(s, 1, i - 1)>> \o Split(SubSeq(s, i + 1, Len(s)), sep)

\* Array.prototype.join with a separator string
RECURSIVE Join(_, _)
Join(parts, sep) ==
  IF parts = <<>> THEN <<>>
  ELSE IF Len(parts) = 1 THEN parts[1]
  ELSE parts[1] \o sep \o Join(Tail(parts), sep)

\* All sequences over S of length 0..n
SeqUpTo(S, n) == UNION {[1..k -> S] : k \in 0..n}


(***************************************************************************)
(* Time.                                                                   *)
(***************************************************************************)
\* `${Date.now()}` : the decimal rendering of a timestamp
Stamp(t) == ToString(t)

\* new Date(): a valid Date at the current time
DateNow(t) == [valid |-> TRUE, ms |-> t]

\* new Date(string): the token "d1" stands for a date string Date can parse
\* (epoch value 1); any other text gives an Invalid Date.
DateParse(s) ==
  IF s = <<"d1">> THEN [valid |-> TRUE, ms |-> 1] ELSE [valid |-> FALSE, ms |-> 0]

(***************************************************************************)
(* ParsingErrorHandler  (src/unnamed/part_003)                             *)
(***************************************************************************)
EmptyMap == [k \in {} |-> <<>>]
EmptyAddress == [address |-> <<>>, name |-> <<>>, original |-> <<>>]

\* headers[key] of a Record<string, string>: undefined reads as falsy ''
HGet(h, k) == IF k \in DOMAIN h THEN h[k] ELSE <<>>

HPut(h, k, v) == [x \in (DOMAIN h) \cup {k} |-> IF x = k THEN v ELSE h[x]]

\* headers[key] = value on the object literal {}: the key '__proto__' reaches
\* the prototype setter of Object.prototype, which ignores a string, so no
\* entry is made
SetHeader(h, k, v) == IF k = <<"__proto__">> THEN h ELSE HPut(h, k, v)

\* The for-loop of extractHeaders over the lines not yet read.
RECURSIVE ScanHeaderLines(_, _)
ScanHeaderLines(lines, headers) ==
  IF lines = <<>> THEN headers
  ELSE LET trimmed == Trim(Head(lines))
       IN IF trimmed = <<>> THEN headers
          ELSE IF Includes(trimmed, ":")
               THEN LET colonIndex == IndexOf(trimmed, ":")
                        key == ToLowerCase(Trim(SubSeq(trimmed, 1, colonIndex - 1)))
                        value == Trim(SubSeq(trimmed, colonIndex + 1, Len(trimmed)))
                    IN ScanHeaderLines(Tail(lines), SetHeader(headers, key, value))
               ELSE ScanHeaderLines(Tail(lines), headers)

\* extractHeaders: emailData.toString throws on null/undefined, inside its try.
ExtractHeaders(data) ==
  IF data.kind = "nullish" THEN EmptyMap
  ELSE ScanHeaderLines(Split(data.bytes, "\n"), EmptyMap)

\* `.` of a JavaScript regular expression without the s flag
IsDot(t) == t \notin {"\n", "\r"}
AllSpace(s, i, j) == \A k \in i..j : IsSpace(s[k])
AllDot(s, i, j) == \A k \in i..j : IsDot(s[k])
LeadingSpaces(s) == Len(s) - Len(TrimStart(s))
\* index of the first token after position i that is not white space
NextNonSpace(s, i) ==
  IF \E k \in (i + 1)..Len(s) : ~IsSpace(s[k])
  THEN CHOOSE k \in (i + 1)..Len(s) : ~IsSpace(s[k]) /\ AllSpace(s, i + 1, k - 1)
  ELSE Len(s) + 1

\* /^\s*(.+?)\s*<\s*(.+?)\s*>\s*$/ : every way to match, as <<a, b, d, e>> with
\* group 1 = s[a+1..b] and group 2 = s[d+1..e].
NameAddrMatches(s) ==
  LET n == Len(s)
  IN {t \in (0..LeadingSpaces(s)) \X (1..n) \X (1..n) \X (1..n) :
        LET a == t[1]
            b == t[2]
            d == t[3]
            e == t[4]
            p == NextNonSpace(s, b)
            q == NextNonSpace(s, e)
        IN /\ a < b /\ AllDot(s, a + 1, b)
           /\ p <= n /\ s[p] = "<"
           /\ p <= d /\ AllSpace(s, p + 1, d)
           /\ d < e /\ AllDot(s, d + 1, e)
           /\ q <= n /\ s[q] = ">"
           /\ NextNonSpace(s, q) = n + 1}

\* Backtracking order: \s* greedy (longest first), .+? lazy (shortest first).
NameAddrPrefers(t, u) ==
  \/ t[1] > u[1]
  \/ t[1] = u[1] /\ t[2] < u[2]
  \/ t[1] = u[1] /\ t[2] = u[2] /\ t[3] > u[3]
  \/ t[1] = u[1] /\ t[2] = u[2] /\ t[3] = u[3] /\ t[4] <= u[4]

\* /^\s*(.+?)\s*$/ : every way to match, as <<a, b>> with group 3 = s[a+1..b]
BareMatches(s) ==
  {t \in (0..LeadingSpaces(s)) \X (1..Len(s)) :
     /\ t[1] < t[2] /\ AllDot(s, t[1] + 1, t[2])
     /\ NextNonSpace(s, t[2]) = Len(s) + 1}

BarePrefers(t, u) == t[1] > u[1] \/ (t[1] = u[1] /\ t[2] <= u[2])

\* parseEmailAddress
ParseEmailAddress(addressString) ==
  IF addressString = <<>> THEN EmptyAddress
  ELSE LET s == addressString
           m1 == NameAddrMatches(s)
           m3 == BareMatches(s)
       IN IF m1 # {}
          THEN LET t == CHOOSE x \in m1 : \A y \in m1 : NameAddrPrefers(x, y)
               IN [address |-> ToLowerCase(Trim(SubSeq(s, t[3] + 1, t[4]))),
                   name |-> Trim(SubSeq(s, t[1] + 1, t[2])),
                   original |-> s]
          ELSE IF m3 # {}
          THEN LET t == CHOOSE x \in m3 : \A y \in m3 : BarePrefers(x, y)
               IN [address |-> ToLowerCase(Trim(SubSeq(s, t[1] + 1, t[2]))),
                   name |-> <<>>,
                   original |-> s]
          ELSE [address |-> ToLowerCase(Trim(s)), name |-> <<>>, original |-> s]

\* parseEmailAddresses that leaves out the empty segments
ParseEmailAddresses_SkipEmpty(addressString) ==
  IF addressString = <<>> THEN <<>>
  ELSE LET parts == SelectSeq(Split(addressString, ","), LAMBDA x : Trim(x) # <<>>)
       IN [i \in 1..Len(parts) |-> ParseEmailAddress(Trim(parts[i]))]

\* parseEmailAddresses
ParseEmailAddresses(addressString) ==
  IF addressString = <<>> THEN <<>>
  ELSE LET parts == Split(addressString, ",")
       IN [i \in 1..Len(parts) |-> ParseEmailAddress(Trim(parts[i]))]

\* extractBasicInfo rejects when emailData.length cannot be read.
ExtractBasicInfoThrows(data) == data.kind = "nullish"

\* extractBasicInfo that takes the Message-ID header as it is, empty or not
ExtractBasicInfo_HeaderIdOnly(data, now) ==
  LET headers == ExtractHeaders(data)
  IN [messageId |-> HGet(headers, <<"message-id">>),
      from |-> ParseEmailAddress(HGet(headers, <<"from">>)),
      to |-> ParseEmailAddresses(HGet(headers, <<"to">>)),
      subject |-> HGet(headers, <<"subject">>),
      body |-> [normalized |-> <<>>],
      attachments |-> <<>>,
      headers |-> headers,
      date |-> IF HGet(headers, <<"date">>) # <<>>
               THEN DateParse(HGet(headers, <<"date">>)) ELSE DateNow(now),
      size |-> Len(data.bytes)]

\* extractBasicInfo, called at time now
ExtractBasicInfo(data, now) ==
  LET headers == ExtractHeaders(data)
  IN [messageId |-> IF HGet(headers, <<"message-id">>) # <<>>
                    THEN HGet(headers, <<"message-id">>) ELSE <<"unknown">>,
      from |-> ParseEmailAddress(HGet(headers, <<"from">>)),
      to |-> ParseEmailAddresses(HGet(headers, <<"to">>)),
      subject |-> HGet(headers, <<"subject">>),
      body |-> [normalized |-> <<>>],
      attachments |-> <<>>,
      headers |-> headers,
      date |-> IF HGet(headers, <<"date">>) # <<>>
               THEN DateParse(HGet(headers, <<"date">>)) ELSE DateNow(now),
      size |-> Len(data.bytes)]

\* createMinimalEmail with the placeholder id of Tier 1 and no size
CreateMinimalEmail_Unknown(data, now) ==
  [messageId |-> <<"unknown">>,
   from |-> EmptyAddress,
   to |-> <<>>,
   subject |-> <<>>,
   body |-> [normalized |-> <<>>],
   attachments |-> <<>>,
   headers |-> EmptyMap,
   date |-> DateNow(now),
   size |-> 0]

\* createMinimalEmail, called at time now (emailData.length must be readable)
CreateMinimalEmail(data, now) ==
  [messageId |-> <<"minimal-", Stamp(now)>>,
   from |-> EmptyAddress,
   to |-> <<>>,
   subject |-> <<>>,
   body |-> [normalized |-> <<>>],
   attachments |-> <<>>,
   headers |-> EmptyMap,
   date |-> DateNow(now),
   size |-> Len(data.bytes)]

\* Lines a raw email handed to the handler is made of.
HandlerLines ==
  { <<"From", ":", " ", "Bob", " ", "<", "B@X", ">">>,
    <<"To", ":", "a@x", ",", " ", "B@X">>,
    <<"Message-ID", ":", "id1">>,
    <<"Subject", ":", "Re", ":", " ", "Hi">>,
    <<"Date", ":", "d1">>,
    <<"Date", ":", " ", "soon">>,
    <<"Message-ID", ":">>,
    <<"__proto__", ":", "x">>,
    <<"To", ":", " ", "Al", " ", "<", " ", "A@X", ">", ",", "<", "b@x", ">", ",">>,
    <<" ", "FROM", " ", ":", "a@x", "\r">>,
    <<"0xFF">>,
    <<>> }

\* emailData is declared `any`: a buffer of bytes, or null/undefined.
HandlerInputs ==
  {[kind |-> "buffer", bytes |-> Join(ls, <<"\n">>)] : ls \in SeqUpTo(HandlerLines, MaxLines)}
  \cup {[kind |-> "nullish", bytes |-> <<>>]}

\* How a call ended: still running, returned a value (at a time), or raised.
NoOutcome == [status |-> "pending", value |-> None, error |-> "", at |-> 0]
Returned(v, now) == [status |-> "returned", value |-> Some(v), error |-> "", at |-> now]
Raised(msg, now) == [status |-> "raised", value |-> None, error |-> msg, at |-> now]

\* What reading emailData.length (and error.message) does in the logging call.
LogOutcome(data, now) ==
  IF data.kind = "nullish" THEN Raised("TypeError", now) ELSE NoOutcome

\* parseEmail has not settled
PPending == [status |-> "pending", value |-> None, error |-> None, at |-> 0]

CallIds == 1..MaxCalls

\* A call slot nothing runs in
IdleCall ==
  [op |-> "none", pc |-> "idle", input |-> None, result |-> None, thrown |-> None,
   results |-> <<>>, idx |-> 0, reads |-> <<>>, out |-> None]

AllIdle ==
  /\ hpc = "idle" /\ apc = "idle" /\ ppc = "idle" /\ rpc = "idle"
  /\ \A id \in CallIds : calls[id].pc = "idle"

\* handleParsingError is called.
HStart(data, fault) ==
  /\ AllIdle
  /\ hpc' = "log"
  /\ hdata' = data
  /\ hfault' = fault
  /\ UNCHANGED <<calls, clock, htier1, hout, avars, pvars, rvars>>

\* console.error('Email parsing error:', {...}), outside any try block.
HLog ==
  /\ hpc = "log"
  /\ hout' = LogOutcome(hdata, clock)
  /\ hpc' = IF LogOutcome(hdata, clock).status = "raised" THEN "done" ELSE "tier1"
  /\ UNCHANGED <<calls, clock, hdata, hfault, htier1, avars, pvars, rvars>>

\* try { return await this.extractBasicInfo(emailData) } catch { ... }
HTier1 ==
  /\ hpc = "tier1"
  /\ IF hfault \/ ExtractBasicInfoThrows(hdata)
     THEN /\ hpc' = "tier2"
          /\ UNCHANGED <<htier1, hout>>
     ELSE /\ htier1' = Some(ExtractBasicInfo(hdata, clock))
          /\ hout' = Returned(ExtractBasicInfo(hdata, clock), clock)
          /\ hpc' = "done"
  /\ UNCHANGED <<calls, clock, hdata, hfault, avars, pvars, rvars>>

\* return this.createMinimalEmail(emailData), in the catch block
HTier2 ==
  /\ hpc = "tier2"
  /\ hout' = IF hdata.kind = "nullish" THEN Raised("TypeError", clock)
             ELSE Returned(CreateMinimalEmail(hdata, clock), clock)
  /\ hpc' = "done"
  /\ UNCHANGED <<calls, clock, hdata, hfault, htier1, avars, pvars, rvars>>

\* Time passes between any two steps.
Tick ==
  /\ clock < MaxClock
  /\ clock' = clock + 1
  /\ UNCHANGED <<calls, hvars, avars, pvars, rvars>>

NextHandler ==
  \/ \E data \in HandlerInputs, fault \in BOOLEAN : HStart(data, fault)
  \/ HLog
  \/ HTier1
  \/ HTier2
  \/ Tick

Init ==
  /\ clock = 1
  /\ hpc = "idle"
  /\ hdata = [kind |-> "buffer", bytes |-> <<>>]
  /\ hfault = FALSE
  /\ htier1 = None
  /\ hout = NoOutcome
  /\ apc = "idle"
  /\ abatch = <<>>
  /\ aidx = 0
  /\ aresults = <<>>
  /\ aout = [status |-> "pending", value |-> None, error |-> ""]
  /\ ppc = "idle"
  /\ praw = 0
  /\ pmime = <<>>
  /\ pout = PPending
  /\ rpc = "idle"
  /\ rin = <<>>
  /\ rst = <<>>
  /\ rlog = <<>>
  /\ calls = [id \in CallIds |-> IdleCall]

SpecHandler == Init /\ [][NextHandler]_vars

(***************************************************************************)
(* AttachmentProcessor  (src/src/attachment-processor.ts)                  *)
(***************************************************************************)
\* String.prototype.toUpperCase, token by token.
UpperTok(t) ==
  CASE t = "summary" -> "SUMMARY"
    [] t = "Summary" -> "SUMMARY"
    [] t = "dtstart" -> "DTSTART"
    [] t = "dtend" -> "DTEND"
    [] t = "location" -> "LOCATION"
    [] t = "description" -> "DESCRIPTION"
    [] OTHER -> t

ToUpperCase(s) == [i \in 1..Len(s) |-> UpperTok(s[i])]

\* String.prototype.endsWith / startsWith for a one-token needle
EndsWith(s, t) == s # <<>> /\ s[Len(s)] = t
StartsWith(s, t) == s # <<>> /\ s[1] = t

\* What an extractor did: returned metadata, or threw an Error with a message.
Ok(v) == [ok |-> TRUE, val |-> v, err |-> ""]
Throw(msg) == [ok |-> FALSE, val |-> EmptyMap, err |-> msg]

\* key.replace(/;.*$/, ''): cut at the first ';' that only `.` follows
StripParams(key) ==
  IF \E i \in 1..Len(key) : key[i] = ";" /\ AllDot(key, i + 1, Len(key))
  THEN LET i == CHOOSE i \in 1..Len(key) :
                  /\ key[i] = ";" /\ AllDot(key, i + 1, Len(key))
                  /\ \A j \in 1..(i - 1) : ~(key[j] = ";" /\ AllDot(key, j + 1, Len(key)))
       IN SubSeq(key, 1, i - 1)
  ELSE key

\* The event field a cleaned key is stored under ("" : no such field)
EventField(cleanKey) ==
  CASE cleanKey = <<"SUMMARY">> -> "summary"
    [] cleanKey = <<"DTSTART">> -> "start"
    [] cleanKey = <<"DTEND">> -> "end"
    [] cleanKey = <<"LOCATION">> -> "location"
    [] cleanKey = <<"DESCRIPTION">> -> "description"
    [] OTHER -> ""

\* A scanner for which a BEGIN:VEVENT inside an open block keeps the fields
\* captured so far
ICSLine_KeepOnRestart(st, line) ==
  LET trimmed == Trim(line)
  IN IF trimmed = <<"BEGIN", ":", "VEVENT">>
     THEN [st EXCEPT !.inEvent = TRUE,
                     !.currentEvent = IF st.inEvent THEN @ ELSE EmptyMap]
     ELSE IF trimmed = <<"END", ":", "VEVENT">>
     THEN IF st.inEvent
          THEN [st EXCEPT !.events = Append(@, st.currentEvent), !.inEvent = FALSE]
          ELSE st
     ELSE IF st.inEvent /\ Includes(trimmed, ":")
     THEN LET pieces == Split(trimmed, ":")
              key == pieces[1]
              rawValue == pieces[2]
              cleanKey == ToUpperCase(StripParams(key))
              normalizedValue == Trim(rawValue)
          IN IF normalizedValue = <<>> \/ EventField(cleanKey) = "" THEN st
             ELSE [st EXCEPT !.currentEvent = HPut(@, EventField(cleanKey), normalizedValue)]
     ELSE st

\* One iteration of parseICSContent's loop; st = [events, currentEvent, inEvent]
ICSLine(st, line) ==
  LET trimmed == Trim(line)
  IN IF trimmed = <<"BEGIN", ":", "VEVENT">>
     THEN [st EXCEPT !.inEvent = TRUE, !.currentEvent = EmptyMap]
     ELSE IF trimmed = <<"END", ":", "VEVENT">>
     THEN IF st.inEvent
          THEN [st EXCEPT !.events = Append(@, st.currentEvent), !.inEvent = FALSE]
          ELSE st
     ELSE IF st.inEvent /\ Includes(trimmed, ":")
     THEN LET pieces == Split(trimmed, ":")
              key == pieces[1]
              rawValue == pieces[2]
              cleanKey == ToUpperCase(StripParams(key))
              normalizedValue == Trim(rawValue)
          IN IF normalizedValue = <<>> \/ EventField(cleanKey) = "" THEN st
             ELSE [st EXCEPT !.currentEvent = HPut(@, EventField(cleanKey), normalizedValue)]
     ELSE st

RECURSIVE ICSLines(_, _)
ICSLines(st, lines) ==
  IF lines = <<>> THEN st ELSE ICSLines(ICSLine(st, Head(lines)), Tail(lines))

\* parseICSContent
ParseICSContent(content) ==
  ICSLines([events |-> <<>>, currentEvent |-> EmptyMap, inEvent |-> FALSE],
           Split(content, "\n")).events

\* events.map(event => mappedEvent): only truthy fields are copied
MapEvent(event) ==
  [k \in {f \in DOMAIN event : event[f] # <<>>} |-> event[k]]

\* processICSFile that accepts content without any event
ProcessICSFile_Lenient(attachment) ==
  Ok([type |-> "calendar",
      events |-> [i \in 1..Len(ParseICSContent(attachment.content)) |->
                    MapEvent(ParseICSContent(attachment.content)[i])]])

\* processICSFile
ProcessICSFile(attachment) ==
  LET content == attachment.content
      events == ParseICSContent(content)
  IN IF events = <<>> /\ Trim(content) # <<>>
     THEN Throw("Invalid or corrupted ICS file")
     ELSE Ok([type |-> "calendar",
              events |-> [i \in 1..Len(events) |-> MapEvent(events[i])]])

\* The value of a byte written as a token.
ByteVal(t) ==
  CASE t = "0x00" -> 0
    [] t = "0x01" -> 1
    [] t = "0x0A" -> 10
    [] t = "0x0D" -> 13
    [] t = "0x1A" -> 26
    [] t = "0x38" -> 56
    [] t = "0x39" -> 57
    [] t = "0x46" -> 70
    [] t = "0x44" -> 68
    [] t = "0x47" -> 71
    [] t = "0x48" -> 72
    [] t = "0x49" -> 73
    [] t = "0x4E" -> 78
    [] t = "0x50" -> 80
    [] t = "0x52" -> 82
    [] t = "0x61" -> 97
    [] t = "0x64" -> 100
    [] t = "0x89" -> 137
    [] t = "0xD8" -> 216
    [] t = "0xE0" -> 224
    [] t = "0xFF" -> 255

\* A 32-bit read that takes the least significant byte first
ReadUInt32BE_LittleEndian(content, offset) ==
  ByteVal(content[offset + 1]) + ByteVal(content[offset + 2]) * 256
    + ByteVal(content[offset + 3]) * 65536 + ByteVal(content[offset + 4]) * 16777216

\* Buffer.readUInt32BE(offset) and Buffer.readUInt16LE(offset), 0-based offsets
ReadUInt32BE(content, offset) ==
  ByteVal(content[offset + 1]) * 16777216 + ByteVal(content[offset + 2]) * 65536
    + ByteVal(content[offset + 3]) * 256 + ByteVal(content[offset + 4])
ReadUInt16LE(content, offset) ==
  ByteVal(content[offset + 1]) + ByteVal(content[offset + 2]) * 256

\* extractImageMetadata
ExtractImageMetadata(content) ==
  IF Len(content) >= 4
  THEN IF content[1] = "0x89" /\ content[2] = "0x50" /\ content[3] = "0x4E" /\ content[4] = "0x47"
       THEN IF Len(content) >= 24
            THEN [width |-> ReadUInt32BE(content, 16), height |-> ReadUInt32BE(content, 20),
                  format |-> "png"]
            ELSE [width |-> 0, height |-> 0, format |-> "png"]
       ELSE IF content[1] = "0xFF" /\ content[2] = "0xD8"
       THEN [width |-> 0, height |-> 0, format |-> "jpeg"]
       ELSE IF content[1] = "0x47" /\ content[2] = "0x49" /\ content[3] = "0x46"
       THEN IF Len(content) >= 10
            THEN [width |-> ReadUInt16LE(content, 6), height |-> ReadUInt16LE(content, 8),
                  format |-> "gif"]
            ELSE [width |-> 0, height |-> 0, format |-> "gif"]
       ELSE [width |-> 0, height |-> 0, format |-> "unknown"]
  ELSE [width |-> 0, height |-> 0, format |-> "unknown"]

\* processImage
ProcessImage(attachment) ==
  LET metadata == ExtractImageMetadata(attachment.content)
  IN Ok([type |-> "image", width |-> metadata.width, height |-> metadata.height,
         format |-> metadata.format, size |-> attachment.size])

\* extractDocumentMetadata: the later test overwrites the earlier one
ExtractDocumentMetadata(attachment) ==
  LET isPdf == attachment.contentType = <<"application/pdf">>
                 \/ EndsWith(attachment.filename, ".pdf")
      isDocx == attachment.contentType =
                    <<"application/vnd.openxmlformats-officedocument.wordprocessingml.document">>
                  \/ EndsWith(attachment.filename, ".docx")
  IN [type |-> IF isDocx THEN "docx" ELSE IF isPdf THEN "pdf" ELSE "document",
      pages |-> 0, author |-> <<>>, title |-> <<>>, size |-> attachment.size]

\* processDocument
ProcessDocument(attachment) ==
  LET metadata == ExtractDocumentMetadata(attachment)
  IN Ok([type |-> metadata.type, pages |-> metadata.pages, author |-> metadata.author,
         title |-> metadata.title, size |-> attachment.size])

\* extractArchiveMetadata: the later test overwrites the earlier one
ExtractArchiveMetadata(attachment) ==
  LET isZip == attachment.contentType = <<"application/zip">>
                 \/ EndsWith(attachment.filename, ".zip")
      isTar == attachment.contentType = <<"application/x-tar">>
                 \/ EndsWith(attachment.filename, ".tar")
  IN [fileCount |-> 0, uncompressedSize |-> 0,
      format |-> IF isTar THEN "tar" ELSE IF isZip THEN "zip" ELSE "unknown"]

\* processArchive
ProcessArchive(attachment) ==
  LET metadata == ExtractArchiveMetadata(attachment)
  IN Ok([type |-> "archive", fileCount |-> metadata.fileCount,
         compressedSize |-> attachment.size,
         uncompressedSize |-> metadata.uncompressedSize, format |-> metadata.format])

\* isDocument
IsDocument(contentType) ==
  contentType \in
    { <<"application/pdf">>,
      <<"application/msword">>,
      <<"application/vnd.openxmlformats-officedocument.wordprocessingml.document">>,
      <<"application/vnd.ms-excel">>,
      <<"application/vnd.openxmlformats-officedocument.spreadsheetml.sheet">>,
      <<"application/vnd.ms-powerpoint">>,
      <<"application/vnd.openxmlformats-officedocument.presentationml.presentation">>,
      <<"text/plain">>,
      <<"text/csv">>,
      <<"application/rtf">> }

\* isArchive
IsArchive(contentType) ==
  contentType \in
    { <<"application/zip">>,
      <<"application/x-tar">>,
      <<"application/gzip">>,
      <<"application/x-rar-compressed">>,
      <<"application/x-7z-compressed">> }

\* The two tests that select calendar and image extraction
IsCalendar(attachment) ==
  attachment.contentType = <<"text/calendar">> \/ EndsWith(attachment.filename, ".ics")
IsImage(attachment) == StartsWith(attachment.contentType, "image/")

\* How a call of the processor ended.
AReturned(v) == [status |-> "returned", value |-> Some(v), error |-> ""]
ARaised(msg) == [status |-> "raised", value |-> None, error |-> msg]
APending == [status |-> "pending", value |-> None, error |-> ""]

\* A result that starts out marked as processed
InitialResult_Processed(attachment) ==
  [filename |-> attachment.filename, contentType |-> attachment.contentType,
   size |-> attachment.size, content |-> attachment.content,
   cid |-> attachment.cid, isInline |-> attachment.isInline,
   processed |-> TRUE, metadata |-> EmptyMap, error |-> None]

\* const result = { ...attachment, processed: false, metadata: {} }
InitialResult(attachment) ==
  [filename |-> attachment.filename, contentType |-> attachment.contentType,
   size |-> attachment.size, content |-> attachment.content,
   cid |-> attachment.cid, isInline |-> attachment.isInline,
   processed |-> FALSE, metadata |-> EmptyMap, error |-> None]

\* Category tests as an exclusive switch: the first match keeps its metadata
RunExtractor_FirstWins(st, matches, extraction) ==
  IF st.thrown # None \/ ~matches \/ st.result.processed THEN st
  ELSE IF extraction.ok
       THEN [st EXCEPT !.result.metadata = extraction.val, !.result.processed = TRUE]
       ELSE [st EXCEPT !.thrown = Some(extraction.err)]

\* A try block in which the extractors after a throwing one still run
RunExtractor_Continue(st, matches, extraction) ==
  IF ~matches THEN st
  ELSE IF extraction.ok
       THEN [st EXCEPT !.result.metadata = extraction.val, !.result.processed = TRUE]
       ELSE [st EXCEPT !.thrown = Some(extraction.err)]

\* One `if (matches) { result.metadata = await extract(); result.processed = true }`
\* inside the try block; st = [result, thrown]. Nothing runs after a throw.
RunExtractor(st, matches, extraction) ==
  IF st.thrown # None \/ ~matches THEN st
  ELSE IF extraction.ok
       THEN [st EXCEPT !.result.metadata = extraction.val, !.result.processed = TRUE]
       ELSE [st EXCEPT !.thrown = Some(extraction.err)]

\* processAttachment without its catch block: the exception escapes
CatchExtractorError_Rethrow(st) ==
  IF st.thrown = None THEN AReturned(st.result) ELSE ARaised(st.thrown[1])

\* catch (error) { result.error = error.message }  return result
CatchExtractorError(st) ==
  IF st.thrown = None THEN AReturned(st.result)
  ELSE AReturned([st.result EXCEPT !.error = st.thrown])

\* processAttachment
ProcessAttachment(attachment) ==
  LET s0 == [result |-> InitialResult(attachment), thrown |-> None]
      s1 == RunExtractor(s0, IsCalendar(attachment), ProcessICSFile(attachment))
      s2 == RunExtractor(s1, IsImage(attachment), ProcessImage(attachment))
      s3 == RunExtractor(s2, IsDocument(attachment.contentType), ProcessDocument(attachment))
      s4 == RunExtractor(s3, IsArchive(attachment.contentType), ProcessArchive(attachment))
  IN CatchExtractorError(s4)

\* the loop body of processAttachments that drops an item whose result has an error
PushResult_DropFailed(results, attachment, outcome) ==
  IF outcome.status = "returned" /\ outcome.value[1].error = None
  THEN Append(results, outcome.value[1])
  ELSE results

\* The loop body of processAttachments: push the result, or the failed record.
PushResult(results, attachment, outcome) ==
  IF outcome.status = "returned"
  THEN Append(results, outcome.value[1])
  ELSE Append(results, [InitialResult(attachment) EXCEPT !.error = Some(outcome.error)])

ContentTypes ==
  { <<"text/calendar">>, <<"image/", "png">>, <<"application/pdf">>, <<"text/plain">>,
    <<"application/zip">>, <<"application/x-tar">>, <<"application/unknown">> }

Filenames ==
  { <<"a", ".ics">>, <<"a", ".pdf">>, <<"a", ".zip">>, <<"a", ".xyz">>, <<"a", ".docx">> }

\* A calendar with a property and a closing outside any block, a block
\* restarted by a second BEGIN:VEVENT, and a block left open at the end
UnbalancedCalendar ==
  <<"SUMMARY", ":", "Out", "\n", "END", ":", "VEVENT", "\n",
    "BEGIN", ":", "VEVENT", "\n", "SUMMARY", ":", "A", "\n",
    "BEGIN", ":", "VEVENT", "\n", "LOCATION", ":", "L", "\n",
    "END", ":", "VEVENT", "\n", "END", ":", "VEVENT", "\n",
    "BEGIN", ":", "VEVENT", "\n", "SUMMARY", ":", "Open">>

\* A calendar whose values contain ':' themselves
ColonCalendar ==
  <<"BEGIN", ":", "VEVENT", "\n", "DTSTART", ":", "10", ":", "30", "\n",
    "LOCATION", ":", " ", "http", ":", "//x", "\n", "SUMMARY", ":", "Hi", "\n",
    "END", ":", "VEVENT">>

\* The signature and IHDR chunk of a 100x100 PNG
PngHeader100 ==
  <<"0x89", "0x50", "0x4E", "0x47", "0x0D", "0x0A", "0x1A", "0x0A",
    "0x00", "0x00", "0x00", "0x0D", "0x49", "0x48", "0x44", "0x52",
    "0x00", "0x00", "0x00", "0x64", "0x00", "0x00", "0x00", "0x64">>

Contents ==
  { <<>>,
    <<"corrupted">>,
    <<" ", "\n">>,
    <<"BEGIN", ":", "VEVENT", "\n", "SUMMARY", ":", "Hi", "\n", "END", ":", "VEVENT">>,
    <<"BEGIN", ":", "VEVENT", "\r", "\n", "dtstart", ";", "TZID=X", ":", "t1", "\n",
      "LOCATION", ":", " ", "\n", "END", ":", "VEVENT", "\n",
      "BEGIN", ":", "VEVENT", "\n", "END", ":", "VEVENT">>,
    <<"0x89", "0x50", "0x4E", "0x47">>,
    <<"0xFF", "0xD8", "0xFF", "0xE0">>,
    <<"0x47", "0x49", "0x46", "0x38", "0x39", "0x61", "0x64", "0x00", "0x01", "0x00">>,
    UnbalancedCalendar,
    ColonCalendar,
    PngHeader100,
    <<"0x89", "0x50", "0x4E", "0x47", "0x0D", "0x0A", "0x1A", "0x0A",
      "0x00", "0x00", "0x00", "0x0D", "0x49", "0x48", "0x44", "0x52",
      "0x00", "0x00", "0x01", "0x00", "0x00", "0x01", "0x00", "0x01", "0x00">>,
    <<"0x89", "0x50", "0x4E", "0x47", "0x0D", "0x0A", "0x1A", "0x0A",
      "0x00", "0x00", "0x00", "0x0D", "0x49", "0x48", "0x44", "0x52",
      "0x00", "0x00", "0x00", "0x64", "0x00", "0x00", "0x00">>,
    <<"0xFF", "0xD8", "0xFF">>,
    <<"0x47", "0x49", "0x46", "0x38", "0x39", "0x61", "0x00", "0x01", "0x00">>,
    <<"0x47", "0x49", "0x46", "0x38", "0x39", "0x61", "0x00", "0x01", "0x64", "0x01",
      "0x00", "0x00">> }

\* Every attachment processAttachment is called with directly.
Attachments ==
  {[filename |-> f, contentType |-> t, size |-> Len(c), content |-> c,
    cid |-> None, isInline |-> FALSE] : f \in Filenames, t \in ContentTypes, c \in Contents}
  \cup {[filename |-> <<"logo", ".png">>, contentType |-> <<"image/", "png">>, size |-> 7,
         content |-> <<"0x89", "0x50", "0x4E", "0x47">>, cid |-> Some("cid1"),
         isInline |-> TRUE]}

\* The attachments batches are made of.
BatchItems ==
  {a \in Attachments :
     \/ a.filename = <<"a", ".ics">> /\ a.contentType = <<"text/calendar">>
          /\ Len(a.content) \in {1, 11}
     \/ a.filename = <<"a", ".xyz">> /\ a.contentType = <<"application/unknown">>
          /\ a.content = <<>>
     \/ a.filename = <<"a", ".ics">> /\ a.contentType = <<"application/zip">>
          /\ Len(a.content) \in {1, 11}
     \/ a.cid # None}

\* processAttachment is called directly.
AOneStart(attachment) ==
  /\ AllIdle
  /\ apc' = "one"
  /\ abatch' = <<attachment>>
  /\ UNCHANGED <<calls, clock, aidx, aresults, aout, hvars, pvars, rvars>>

\* processAttachment runs to its return.
AOneRun ==
  /\ apc = "one"
  /\ aout' = ProcessAttachment(abatch[1])
  /\ apc' = "done1"
  /\ UNCHANGED <<calls, clock, abatch, aidx, aresults, hvars, pvars, rvars>>

\* processAttachments is called: const results = []
ABatchStart(attachments) ==
  /\ AllIdle
  /\ apc' = "loop"
  /\ abatch' = attachments
  /\ aidx' = 1
  /\ aresults' = <<>>
  /\ UNCHANGED <<calls, clock, aout, hvars, pvars, rvars>>

\* A loop that starts two items together and pushes them as they complete
ABatchStep_Parallel ==
  /\ apc = "loop"
  /\ aidx <= Len(abatch)
  /\ aresults' =
       IF aidx + 1 <= Len(abatch)
       THEN PushResult(PushResult(aresults, abatch[aidx + 1],
                                  ProcessAttachment(abatch[aidx + 1])),
                       abatch[aidx], ProcessAttachment(abatch[aidx]))
       ELSE PushResult(aresults, abatch[aidx], ProcessAttachment(abatch[aidx]))
  /\ aidx' = IF aidx + 1 <= Len(abatch) THEN aidx + 2 ELSE aidx + 1
  /\ UNCHANGED <<calls, clock, apc, abatch, aout, hvars, pvars, rvars>>

\* One iteration of `for (const attachment of attachments)`.
ABatchStep ==
  /\ apc = "loop"
  /\ aidx <= Len(abatch)
  /\ aresults' = PushResult(aresults, abatch[aidx], ProcessAttachment(abatch[aidx]))
  /\ aidx' = aidx + 1
  /\ UNCHANGED <<calls, clock, apc, abatch, aout, hvars, pvars, rvars>>

\* return results
ABatchReturn ==
  /\ apc = "loop"
  /\ aidx > Len(abatch)
  /\ apc' = "done"
  /\ UNCHANGED <<calls, clock, abatch, aidx, aresults, aout, hvars, pvars, rvars>>

NextAttach ==
  \/ \E attachment \in Attachments : AOneStart(attachment)
  \/ AOneRun
  \/ \E attachments \in SeqUpTo(BatchItems, MaxBatch) : ABatchStart(attachments)
  \/ ABatchStep
  \/ ABatchReturn

SpecAttach == Init /\ [][NextAttach]_vars

(***************************************************************************)
(* EmailParser  (src/src/email-parser.ts)                                  *)
(***************************************************************************)
\* length of the match of a literal token sequence at position i (0: none)
LiteralAt(s, i, lit) ==
  IF i + Len(lit) - 1 <= Len(s) /\ SubSeq(s, i, i + Len(lit) - 1) = lit THEN Len(lit) ELSE 0

\* /<name[^>]*>.*?<\/name>/gi at position i: the opening tag runs to the first
\* '>', the contents may not hold a line terminator, the first closing tag ends it.
BlockAt(s, i, name) ==
  IF /\ i + 1 <= Len(s) /\ s[i] = "<" /\ LowerTok(s[i + 1]) = name
     /\ \E j \in (i + 2)..Len(s) : s[j] = ">"
  THEN LET j == CHOOSE j \in (i + 2)..Len(s) :
                   s[j] = ">" /\ \A m \in (i + 2)..(j - 1) : s[m] # ">"
           Closes(k) == /\ k + 3 <= Len(s)
                        /\ s[k] = "<" /\ s[k + 1] = "/"
                        /\ LowerTok(s[k + 2]) = name /\ s[k + 3] = ">"
                        /\ AllDot(s, j + 1, k - 1)
       IN IF \E k \in (j + 1)..Len(s) : Closes(k)
          THEN LET k == CHOOSE k \in (j + 1)..Len(s) :
                          Closes(k) /\ \A m \in (j + 1)..(k - 1) : ~Closes(m)
               IN k + 4 - i
          ELSE 0
  ELSE 0

\* /<[^>]+>/g at position i
TagAt(s, i) ==
  IF s[i] = "<" /\ i + 1 <= Len(s) /\ s[i + 1] # ">"
     /\ \E j \in (i + 2)..Len(s) : s[j] = ">"
  THEN (CHOOSE j \in (i + 2)..Len(s) : s[j] = ">" /\ \A m \in (i + 2)..(j - 1) : s[m] # ">")
         + 1 - i
  ELSE 0

\* /\n{3,}/g at position i: the whole run of newlines, when it is 3 or longer
NewlineRunAt(s, i) ==
  LET run == IF \E k \in i..Len(s) : s[k] # "\n"
             THEN (CHOOSE k \in i..Len(s) : s[k] # "\n" /\ \A m \in i..(k - 1) : s[m] = "\n") - i
             ELSE Len(s) + 1 - i
  IN IF run >= 3 THEN run ELSE 0

\* The regular expressions of normalizeBody and stripHtmlTags: length of the
\* match of the named pattern at position i of s (0: no match there)
MatchAt(pattern, s, i) ==
  CASE pattern = "script" -> BlockAt(s, i, "script")
    [] pattern = "style" -> BlockAt(s, i, "style")
    [] pattern = "tag" -> TagAt(s, i)
    [] pattern = "&nbsp;" -> LiteralAt(s, i, <<"&", "nbsp;">>)
    [] pattern = "&amp;" -> LiteralAt(s, i, <<"&", "amp;">>)
    [] pattern = "&lt;" -> LiteralAt(s, i, <<"&", "lt;">>)
    [] pattern = "&gt;" -> LiteralAt(s, i, <<"&", "gt;">>)
    [] pattern = "&quot;" -> LiteralAt(s, i, <<"&", "quot;">>)
    [] pattern = "&#39;" -> LiteralAt(s, i, <<"&", "#39;">>)
    [] pattern = "\\r\\n" -> LiteralAt(s, i, <<"\r", "\n">>)
    [] pattern = "\\r" -> LiteralAt(s, i, <<"\r">>)
    [] pattern = "\\n{3,}" -> NewlineRunAt(s, i)

\* Global String.prototype.replace: scan left to right; where the pattern
\* matches, the match is replaced and the scan goes on after it.
RECURSIVE ReplaceFrom(_, _, _, _)
ReplaceMatch(s, i, len, pattern, replacement) ==
  IF len > 0
  THEN replacement \o ReplaceFrom(s, i + len, pattern, replacement)
  ELSE <<s[i]>> \o ReplaceFrom(s, i + 1, pattern, replacement)

ReplaceFrom(s, i, pattern, replacement) ==
  IF i > Len(s) THEN <<>>
  ELSE ReplaceMatch(s, i, MatchAt(pattern, s, i), pattern, replacement)

ReplaceAll(s, pattern, replacement) == ReplaceFrom(s, 1, pattern, replacement)

\* stripHtmlTags: the nine replacements in the order of the source, then trim
StripHtmlTags(html) ==
  LET r1 == ReplaceAll(html, "script", <<>>)
      r2 == ReplaceAll(r1, "style", <<>>)
      r3 == ReplaceAll(r2, "tag", <<>>)
      r4 == ReplaceAll(r3, "&nbsp;", <<" ">>)
      r5 == ReplaceAll(r4, "&amp;", <<"&">>)
      r6 == ReplaceAll(r5, "&lt;", <<"<">>)
      r7 == ReplaceAll(r6, "&gt;", <<">">>)
      r8 == ReplaceAll(r7, "&quot;", <<"\"">>)
      r9 == ReplaceAll(r8, "&#39;", <<"'">>)
  IN Trim(r9)

\* normalizeBody that leaves lone carriage returns alone
NormalizeBody_KeepCR(parsed) ==
  LET chosen == IF parsed.text = <<>> /\ parsed.html # <<>>
                THEN StripHtmlTags(parsed.html) ELSE parsed.text
      n1 == ReplaceAll(chosen, "\\r\\n", <<"\n">>)
      n3 == ReplaceAll(n1, "\\n{3,}", <<"\n", "\n">>)
  IN [text |-> parsed.text, html |-> parsed.html, normalized |-> Trim(n3)]

\* normalizeBody that takes the HTML part whenever there is one
NormalizeBody_PreferHtml(parsed) ==
  LET chosen == IF parsed.html # <<>> THEN StripHtmlTags(parsed.html) ELSE parsed.text
      n1 == ReplaceAll(chosen, "\\r\\n", <<"\n">>)
      n2 == ReplaceAll(n1, "\\r", <<"\n">>)
      n3 == ReplaceAll(n2, "\\n{3,}", <<"\n", "\n">>)
  IN [text |-> parsed.text, html |-> parsed.html, normalized |-> Trim(n3)]

\* normalizeBody; text and html are <<>> when the result has no such field
NormalizeBody(parsed) ==
  LET text == parsed.text
      html == parsed.html
      chosen == IF text = <<>> /\ html # <<>> THEN StripHtmlTags(html) ELSE text
      n1 == ReplaceAll(chosen, "\\r\\n", <<"\n">>)
      n2 == ReplaceAll(n1, "\\r", <<"\n">>)
      n3 == ReplaceAll(n2, "\\n{3,}", <<"\n", "\n">>)
  IN [text |-> text, html |-> html, normalized |-> Trim(n3)]

\* String.prototype.normalize('NFC'), token by token: the token "e+COMBINING ACUTE"
\* is the decomposed spelling of the token "e-acute".
NfcTok(t) == IF t = "e+COMBINING ACUTE" THEN "e-acute" ELSE t
Nfc(s) == [i \in 1..Len(s) |-> NfcTok(s[i])]

\* A prefix match that goes on through every nested marker
RECURSIVE SubjectPrefixLen_All(_)
SubjectPrefixLen_All(s) ==
  IF Len(s) >= 2 /\ LowerTok(s[1]) \in {"re", "fwd", "fw"} /\ s[2] = ":"
  THEN (NextNonSpace(s, 2) - 1)
         + SubjectPrefixLen_All(SubSeq(s, NextNonSpace(s, 2), Len(s)))
  ELSE 0

\* /^(re:|fwd?:|fw:)\s*/i at the start of the subject: length of the match
SubjectPrefixLen(s) ==
  IF Len(s) >= 2 /\ LowerTok(s[1]) \in {"re", "fwd", "fw"} /\ s[2] = ":"
  THEN NextNonSpace(s, 2) - 1
  ELSE 0

\* normalizeSubject
NormalizeSubject(subject) ==
  IF subject = <<>> THEN <<>>
  ELSE Nfc(Trim(SubSeq(subject, SubjectPrefixLen(subject) + 1, Len(subject))))

\* extractAddressValue; an address field is [isArray, objs], objs the value
\* lists of its AddressObjects (none: the field is undefined)
RECURSIVE Flatten(_)
Flatten(lists) == IF lists = <<>> THEN <<>> ELSE Head(lists) \o Flatten(Tail(lists))

ExtractAddressValue(field) ==
  IF field.objs = <<>> THEN <<>>
  ELSE IF field.isArray THEN Flatten(field.objs)
  ELSE field.objs[1]

\* normalizeEmailAddress
NormalizeEmailAddress(address) ==
  IF address.address = <<>> THEN EmptyAddress
  ELSE [address |-> ToLowerCase(address.address),
        name |-> address.name,
        original |-> IF address.original # <<>> THEN address.original
                     ELSE IF address.text # <<>> THEN address.text
                     ELSE IF address.name # <<>>
                          THEN address.name \o <<" ", "<">> \o address.address \o <<">">>
                          ELSE address.address]

\* normalizeEmailAddresses
NormalizeEmailAddresses(addresses) ==
  [i \in 1..Len(addresses) |-> NormalizeEmailAddress(addresses[i])]

\* fromAddress?.[0] || {}
NoAddress == [address |-> <<>>, name |-> <<>>, original |-> <<>>, text |-> <<>>]
FirstOrEmpty(addresses) == IF addresses = <<>> THEN NoAddress ELSE addresses[1]

\* extractMessageId that never synthesizes an id
ExtractMessageId_HeaderOnly(parsed, now, suffix) ==
  IF HGet(parsed.headers, <<"message-id">>) # <<>>
  THEN HGet(parsed.headers, <<"message-id">>).val
  ELSE <<>>

\* extractMessageId; suffix is Math.random().toString(36).slice(2, 11)
ExtractMessageId(parsed, now, suffix) ==
  IF HGet(parsed.headers, <<"message-id">>) # <<>>
       /\ HGet(parsed.headers, <<"message-id">>).val # <<>>
  THEN HGet(parsed.headers, <<"message-id">>).val
  ELSE <<"msg-", Stamp(now), "-">> \o suffix

\* One header value of normalizeHeaders: string, array (joined by ', '),
\* Date (ISO string), anything else (String(value)).
HeaderText(v) ==
  CASE v.kind = "string" -> v.val
    [] v.kind = "array" -> Join(v.val, <<",", " ">>)
    [] v.kind = "date" -> <<"iso:">> \o v.val
    [] OTHER -> <<"String(">> \o v.val \o <<")">>

\* normalizeHeaders: keys lowercased; of two keys that collide the later wins,
\* and the header map holds its keys in the order of KeyOrder.
RECURSIVE PutHeaders(_, _, _)
PutHeaders(headers, keys, normalized) ==
  IF keys = <<>> THEN normalized
  ELSE PutHeaders(headers, Tail(keys),
                  IF Head(keys) \in DOMAIN headers
                  THEN SetHeader(normalized, ToLowerCase(Head(keys)),
                                 HeaderText(headers[Head(keys)]))
                  ELSE normalized)

KeyOrder == << <<"message-id">>, <<"received">>, <<"date">>, <<"X-Tag">>, <<"x-tag">> >>

NormalizeHeaders(headers) == PutHeaders(headers, KeyOrder, EmptyMap)

\* processAttachments of the parser: defaults for what the part leaves out
ParserAttachment(part) ==
  [filename |-> IF part.filename # <<>> THEN part.filename ELSE <<"unknown">>,
   contentType |-> IF part.contentType # <<>> THEN part.contentType
                   ELSE <<"application/octet-stream">>,
   size |-> part.size,
   content |-> part.content,
   cid |-> IF part.cid # "" THEN Some(part.cid) ELSE None,
   isInline |-> part.contentDisposition = "inline"]

ParserAttachments(parts) == [i \in 1..Len(parts) |-> ParserAttachment(parts[i])]

\* How parseEmail ended; error is the Error object it rejected with.
PReturned(v, now) == [status |-> "returned", value |-> Some(v), error |-> None, at |-> now]
PRaised(err, now) == [status |-> "raised", value |-> None, error |-> Some(err), at |-> now]

PlainError(msg) == [name |-> "Error", message |-> msg, cause |-> None, context |-> None]

\* new EmailParsingError('Failed to parse email', error as Error): no context
EmailParsingError(cause) ==
  [name |-> "EmailParsingError", message |-> "Failed to parse email",
   cause |-> Some(cause), context |-> None]

\* !hasFrom && !hasTo && !hasSubject && !hasBody
IsMalformed(parsed) ==
  /\ FirstOrEmpty(ExtractAddressValue(parsed.from)).address = <<>>
  /\ FirstOrEmpty(ExtractAddressValue(parsed.to)).address = <<>>
  /\ parsed.subject = <<>>
  /\ parsed.text = <<>> /\ parsed.html = <<>>

\* The ParsedEmail literal parseEmail returns.
BuildParsedEmail(parsed, size, now, suffix) ==
  [messageId |-> ExtractMessageId(parsed, now, suffix),
   from |-> NormalizeEmailAddress(FirstOrEmpty(ExtractAddressValue(parsed.from))),
   to |-> NormalizeEmailAddresses(ExtractAddressValue(parsed.to)),
   cc |-> NormalizeEmailAddresses(ExtractAddressValue(parsed.cc)),
   bcc |-> NormalizeEmailAddresses(ExtractAddressValue(parsed.bcc)),
   subject |-> NormalizeSubject(parsed.subject),
   body |-> NormalizeBody(parsed),
   attachments |-> ParserAttachments(parsed.attachments),
   headers |-> NormalizeHeaders(parsed.headers),
   date |-> IF parsed.date # None THEN parsed.date[1] ELSE DateNow(now),
   size |-> size]

\* parseEmail after `await simpleParser(rawEmail)` has settled
ParseOutcome(parsed, size, now, suffix) ==
  IF ~parsed.ok
  THEN PRaised(EmailParsingError(PlainError("simpleParser rejected")), now)
  ELSE IF IsMalformed(parsed)
  THEN PRaised(EmailParsingError(PlainError(
         "Email appears to be completely malformed - no recognizable email structure found")),
         now)
  ELSE PReturned(BuildParsedEmail(parsed, size, now, suffix), now)

\* Entries of the address lists of a decomposition (MailparserAddress):
\* a bare address, a named one, a group entry without address, an address with
\* surrounding blanks, one carrying its literal text, one carrying `original`.
PlainEntry == [address |-> <<"B@X">>, name |-> <<>>, original |-> <<>>, text |-> <<>>]
NamedEntry == [address |-> <<"a@x">>, name |-> <<"Bob">>, original |-> <<>>, text |-> <<>>]
GroupEntry == [address |-> <<>>, name |-> <<"Team">>, original |-> <<>>, text |-> <<>>]
PaddedEntry == [address |-> <<" ", "A@X", " ">>, name |-> <<>>, original |-> <<>>, text |-> <<>>]
LiteralEntry ==
  [address |-> <<"A@X">>, name |-> <<"Bob">>, original |-> <<>>,
   text |-> <<"\"", "Bob", "\"", " ", "<", "A@X", ">">>]
OriginalEntry ==
  [address |-> <<"B@X">>, name |-> <<"Bob">>, original |-> <<"Bob", "<", "B@X", ">">>,
   text |-> <<"bob">>]

\* The entries To lists are made of.
ToEntries == {PlainEntry, GroupEntry, PaddedEntry}

Undefined == [isArray |-> FALSE, objs |-> <<>>]
Single(value) == [isArray |-> FALSE, objs |-> <<value>>]
Several(values) == [isArray |-> TRUE, objs |-> values]

FromFields ==
  {Undefined, Single(<<OriginalEntry, PlainEntry>>), Single(<<GroupEntry>>),
   Single(<<LiteralEntry>>)}

\* What the decomposition reports besides from, to, subject and bodies:
\* nothing at all,
BareEnvelope ==
  [cc |-> Undefined, bcc |-> Undefined, headers |-> EmptyMap, attachments |-> <<>>,
   date |-> None]

\* recipients, a Message-ID, multi-valued and date headers, two attachments,
FullEnvelope ==
  [cc |-> Several(<< <<PaddedEntry>>, <<>>, <<PlainEntry>> >>), bcc |-> Single(<<NamedEntry>>),
   headers |-> [k \in {<<"message-id">>, <<"received">>, <<"date">>} |->
                  CASE k = <<"message-id">> -> [kind |-> "string", val |-> <<"<", "id1", ">">>]
                    [] k = <<"received">> -> [kind |-> "array", val |-> << <<"r1">>, <<"r2">> >>]
                    [] OTHER -> [kind |-> "date", val |-> <<"d1">>]],
   attachments |-> << [filename |-> <<>>, contentType |-> <<>>, size |-> 0,
                       content |-> <<"corrupted">>, contentDisposition |-> "attachment",
                       cid |-> ""],
                      [filename |-> <<"a", ".ics">>, contentType |-> <<"text/calendar">>,
                       size |-> 1, content |-> <<"corrupted">>,
                       contentDisposition |-> "inline", cid |-> "cid1"] >>,
   date |-> Some([valid |-> TRUE, ms |-> 0])]

\* an empty Message-ID, colliding header keys, an address array without values.
OddEnvelope ==
  [cc |-> Several(<< <<>> >>), bcc |-> Undefined,
   headers |-> [k \in {<<"message-id">>, <<"X-Tag">>, <<"x-tag">>} |->
                  CASE k = <<"message-id">> -> [kind |-> "string", val |-> <<>>]
                    [] k = <<"X-Tag">> -> [kind |-> "other", val |-> <<"7">>]
                    [] OTHER -> [kind |-> "string", val |-> <<"t">>]],
   attachments |-> <<>>, date |-> None]

Envelopes == {BareEnvelope, FullEnvelope, OddEnvelope}

SubjectSample == <<"RE", ":", " ", "Re", ":", " ", "e+COMBINING ACUTE", " ">>
TextSample == <<" ", "a", "\r", "\n", "b", "\r", "c", "\n", "\n", "\n", "d", "\n">>
HtmlSample ==
  <<"<", "Style", ">", "x", "<", "/", "style", ">", "<", "p", ">", "a", "&", "amp;", "lt;",
    "<", "/", "p", ">", "<", "SCRIPT", " ", "src", ">", "y", "\n", "<", "/", "script", ">">>

\* subject, text and html of a decomposition: none, each one alone, all three
MimeContents ==
  { [subject |-> <<>>, text |-> <<>>, html |-> <<>>],
    [subject |-> SubjectSample, text |-> <<>>, html |-> <<>>],
    [subject |-> <<>>, text |-> TextSample, html |-> <<>>],
    [subject |-> <<>>, text |-> <<>>, html |-> HtmlSample],
    [subject |-> SubjectSample, text |-> TextSample, html |-> HtmlSample] }

\* Math.random().toString(36).slice(2, 11): up to nine characters, possibly none
RandomSuffixes == { <<>>, <<"k3x9">> }

RawSizes == {0, 9}

\* The decompositions simpleParser resolves with ...
ResolvedMimes ==
  {[ok |-> TRUE, from |-> f, to |-> IF t = <<>> THEN Undefined ELSE Single(t),
    cc |-> e.cc, bcc |-> e.bcc, subject |-> c.subject, text |-> c.text, html |-> c.html,
    headers |-> e.headers, attachments |-> e.attachments, date |-> e.date] :
     f \in FromFields, t \in SeqUpTo(ToEntries, MaxToList), e \in Envelopes,
     c \in MimeContents}

\* ... and the case that it rejects
RejectedMime ==
  [ok |-> FALSE, from |-> Undefined, to |-> Undefined, cc |-> Undefined, bcc |-> Undefined,
   subject |-> <<>>, text |-> <<>>, html |-> <<>>, headers |-> EmptyMap,
   attachments |-> <<>>, date |-> None]

\* Further subjects, texts and HTML parts, each in an otherwise plain message
ExtraSubjects ==
  { <<"Re", ":", " ", "Hello">>, <<"Re", ":", " ", "Re", ":", " ", "Hello">>,
    <<" ", "Hello", " ">>, <<"Fwd", ":", "FW", ":", "x">>, <<"FW", ":", " ">>,
    <<"Hello", ":", " ", "Re", ":">>, <<" ", "Re", ":", " ", "x">> }

ExtraTexts ==
  { <<"a", "\r", "\n", "b", "\r", "c", "\n", "\n", "\n", "d">>,
    <<"x", "\r", "\r", "\n", "\n", "y", "\n", " ", "\n", "\n", "\n", "\n", "z", "\r">>,
    <<" ", "\n">> }

ExtraHtmls ==
  { <<"<", "script", ">", "x", "<", "/", "script", ">", "<", "style", " ", "media", ">", "y",
      "<", "/", "style", ">", "<", "b", ">", "hi", "<", "/", "b", ">">>,
    <<"<", "style", ">", "x", "\n", "<", "/", "style", ">", "hi">>,
    <<"a", "&", "nbsp;", "&", "quot;", "b", "&", "#39;", "&", "gt;", "<", ">">>,
    <<"x", "&", "amp;", "lt;", "y", "&", "amp;", "amp;">>,
    <<"&", "lt;", "b", "&", "gt;", "&", "nbsp;", "c", "&", "copy;">> }

ExtraMimes ==
  {[ok |-> TRUE, from |-> Undefined, to |-> Single(<<PlainEntry>>),
    cc |-> Undefined, bcc |-> Undefined, subject |-> c.subject, text |-> c.text,
    html |-> c.html, headers |-> EmptyMap, attachments |-> <<>>, date |-> None] :
     c \in {[subject |-> x, text |-> <<>>, html |-> <<>>] : x \in ExtraSubjects}
          \cup {[subject |-> <<>>, text |-> x, html |-> <<>>] : x \in ExtraTexts}
          \cup {[subject |-> <<>>, text |-> <<>>, html |-> x] : x \in ExtraHtmls}}

Mimes == ResolvedMimes \cup ExtraMimes \cup {RejectedMime}

\* parseEmail is called and suspends in `await simpleParser(rawEmail)`.
PStart(size) ==
  /\ AllIdle
  /\ ppc' = "await"
  /\ praw' = size
  /\ UNCHANGED <<calls, clock, pmime, pout, hvars, avars, rvars>>

\* simpleParser settles; parseEmail runs to its return or throw.
PResume(parsed, suffix) ==
  /\ ppc = "await"
  /\ pmime' = parsed
  /\ pout' = ParseOutcome(parsed, praw, clock, suffix)
  /\ ppc' = "done"
  /\ UNCHANGED <<calls, clock, praw, hvars, avars, rvars>>

NextParser ==
  \/ \E size \in RawSizes : PStart(size)
  \/ \E parsed \in Mimes, suffix \in RandomSuffixes : PResume(parsed, suffix)
  \/ Tick

SpecParser == Init /\ [][NextParser]_vars

(***************************************************************************)
(* processEmail, the calling pipeline  (src/unnamed/part_003, 316-563)     *)
(***************************************************************************)
\* String.prototype.includes for a needle of several tokens
IncludesSeq(s, lit) == \E i \in 1..Len(s) : LiteralAt(s, i, lit) > 0

\* emailContent.includes('From:') || includes('To:') || includes('Subject:')
IsRawFormat(emailContent) ==
  \/ IncludesSeq(emailContent, <<"From", ":">>)
  \/ IncludesSeq(emailContent, <<"To", ":">>)
  \/ IncludesSeq(emailContent, <<"Subject", ":">>)

\* The locals of processEmail before the raw-format test; handlerCalls counts
\* the calls of ParsingErrorHandler.handleParsingError, thrown holds an
\* exception on its way to the outer catch, result the ProcessResult returned.
InitialLocals(emailData) ==
  [parsedText |-> emailData.body, parsedHtml |-> emailData.html, attachments |-> <<>>,
   ccRecipients |-> <<>>, bccRecipients |-> <<>>, processedAttachments |-> <<>>,
   parseCalled |-> FALSE, parseFailed |-> FALSE, handlerCalls |-> 0,
   thrown |-> None, s3Key |-> <<>>, result |-> None]

\* The assignments after `await emailParser.parseEmail(...)` returned.
AdoptParsed(st, parsed) ==
  [st EXCEPT
     !.parsedText = IF parsed.body.normalized # <<>> THEN parsed.body.normalized
                    ELSE parsed.body.text,
     !.parsedHtml = parsed.body.html,
     !.attachments = parsed.attachments,
     !.ccRecipients = [i \in 1..Len(parsed.cc) |-> parsed.cc[i].address],
     !.bccRecipients = [i \in 1..Len(parsed.bcc) |-> parsed.bcc[i].address]]

\* A pipeline whose catch hands the failure to the recovery path
CatchParseFailure_RouteToHandler(st, err) ==
  [st EXCEPT !.parseFailed = TRUE, !.handlerCalls = @ + 1]

\* A pipeline without the inner catch: the failure reaches the outer catch
CatchParseFailure_Rethrow(st, err) ==
  [st EXCEPT !.parseFailed = TRUE, !.thrown = Some(err.message)]

\* catch (error) { logger.warn('Could not parse as email, treating as plain
\* text') }: the locals keep the original content
CatchParseFailure(st, err) == [st EXCEPT !.parseFailed = TRUE]

\* The raw-format branch: parseEmail on Buffer.from(emailContent), inside try/catch
ParseStep(st, emailData, outcome) ==
  IF ~IsRawFormat(emailData.body) THEN st
  ELSE IF outcome.status = "returned"
       THEN AdoptParsed([st EXCEPT !.parseCalled = TRUE], outcome.value[1])
       ELSE CatchParseFailure([st EXCEPT !.parseCalled = TRUE], outcome.error[1])

\* emailData.cc.split(',').map(addr => addr.trim())
SplitRecipients(list) ==
  LET pieces == Split(list, ",") IN [i \in 1..Len(pieces) |-> Trim(pieces[i])]

\* CC/BCC from the JSON input when parsing set none
RecipientFallback(st, emailData) ==
  [st EXCEPT
     !.ccRecipients = IF st.ccRecipients = <<>> /\ emailData.cc # <<>>
                      THEN SplitRecipients(emailData.cc) ELSE @,
     !.bccRecipients = IF st.bccRecipients = <<>> /\ emailData.bcc # <<>>
                       THEN SplitRecipients(emailData.bcc) ELSE @]

\* attachmentProcessor.processAttachments(attachments), run to its return
RECURSIVE ProcessAttachmentsFrom(_, _)
ProcessAttachmentsFrom(attachments, results) ==
  IF attachments = <<>> THEN results
  ELSE ProcessAttachmentsFrom(Tail(attachments),
         PushResult(results, Head(attachments), ProcessAttachment(Head(attachments))))

\* ccRecipients.join(', ')
JoinRecipients(list) == Join(list, <<",", " ">>)

\* const processedEmail: ProcessedEmail = {...}
ProcessedEmail(emailData, st, now) ==
  [messageId |-> emailData.messageId, timestamp |-> Stamp(now),
   email |-> [from |-> emailData.from, to |-> emailData.to,
              cc |-> JoinRecipients(st.ccRecipients), bcc |-> JoinRecipients(st.bccRecipients),
              subject |-> emailData.subject, body |-> st.parsedText, html |-> st.parsedHtml,
              attachments |-> st.processedAttachments]]

\* `emails/${Date.now()}/${emailData.messageId}.json`
S3Key(emailData, now) == <<"emails/", Stamp(now), "/">> \o emailData.messageId \o <<".json">>

\* One effect on the outside world, in the order they were made.
Effect(op, now, detail) == [op |-> op, at |-> now, detail |-> detail]

\* The outer catch: return { success: false, error: error.message }
Failed(st, msg) == [st EXCEPT !.result = Some([success |-> FALSE, error |-> msg])]

\* Decompositions the pipeline's parseEmail call can meet: rejected by the
\* collaborator, resolved without any structure, complete, and HTML only.
MalformedMime == [RejectedMime EXCEPT !.ok = TRUE]
CompleteMime ==
  [ok |-> TRUE, from |-> Single(<<LiteralEntry>>), to |-> Single(<<PlainEntry>>),
   cc |-> FullEnvelope.cc, bcc |-> FullEnvelope.bcc,
   subject |-> <<"Hi">>, text |-> <<"a", "\r", "\n", "b">>, html |-> <<"<", "p", ">", "a">>,
   headers |-> FullEnvelope.headers, attachments |-> FullEnvelope.attachments,
   date |-> FullEnvelope.date]
HtmlOnlyMime ==
  [MalformedMime EXCEPT !.html = <<"<", "p", ">", "&", "amp;">>]

PipelineMimes == {RejectedMime, MalformedMime, CompleteMime, HtmlOnlyMime}

Bodies ==
  { <<>>, <<"hello">>, <<"Subject", ":">>,
    <<"From", ":", " ", "A@X", "\n", "\n", "hi">>, <<"see", " ", "To", ":", " ", "x">> }

\* EmailData as the HTTP endpoint hands it over
EmailDatas ==
  {[messageId |-> <<"m1">>, from |-> <<"s@x">>, to |-> <<"r@x">>, subject |-> <<"Hi">>,
    body |-> b, html |-> h, cc |-> c, bcc |-> IF c = <<>> THEN <<"e@x">> ELSE <<>>] :
     b \in Bodies, h \in {<<>>, <<"<", "b", ">">>}, c \in {<<>>, <<"c@x", ",", " ", "D@X", " ">>}}

\* config.webhookUrl and config.sqsQueueUrl, set or not
Configs == [webhookUrl : BOOLEAN, sqsQueueUrl : BOOLEAN]

\* How a webhook POST ends: 2xx, another status, a network error
FetchAnswers == {"ok", "status", "error"}

\* processEmail is called: logger.info('Processing email')
RStart(emailData, config) ==
  /\ AllIdle
  /\ rpc' = "receipt"
  /\ rin' = [emailData |-> emailData, config |-> config]
  /\ rst' = InitialLocals(emailData)
  /\ rlog' = <<>>
  /\ UNCHANGED <<calls, clock, hvars, avars, pvars>>

\* A receipt webhook whose failure ends processing
RReceipt_Abort(answer) ==
  /\ rpc = "receipt"
  /\ rlog' = IF rin.config.webhookUrl
             THEN Append(rlog, Effect("webhook", clock,
                                      [type |-> "email_received", answer |-> answer]))
             ELSE rlog
  /\ rst' = IF rin.config.webhookUrl /\ answer # "ok"
            THEN Failed(rst, "Receipt webhook failed") ELSE rst
  /\ rpc' = IF rin.config.webhookUrl /\ answer # "ok" THEN "done" ELSE "parse"
  /\ UNCHANGED <<calls, clock, rin, hvars, avars, pvars>>

\* await sendReceiptWebhook(emailData): never throws
RReceipt(answer) ==
  /\ rpc = "receipt"
  /\ rlog' = IF rin.config.webhookUrl
             THEN Append(rlog, Effect("webhook", clock,
                                      [type |-> "email_received", answer |-> answer]))
             ELSE rlog
  /\ rpc' = "parse"
  /\ UNCHANGED <<calls, clock, rin, rst, hvars, avars, pvars>>

\* After the parse try/catch: an exception on its way out reaches the outer
\* catch, otherwise the CC/BCC fallback follows.
AfterParse(st, emailData) ==
  IF st.thrown # None THEN Failed(st, st.thrown[1]) ELSE RecipientFallback(st, emailData)

\* The raw-format branch with its parseEmail call, then the CC/BCC fallback.
RParse(parsed, suffix) ==
  /\ rpc = "parse"
  /\ rst' = AfterParse(ParseStep(rst, rin.emailData,
                                 ParseOutcome(parsed, Len(rin.emailData.body), clock, suffix)),
                       rin.emailData)
  /\ rpc' = IF rst'.result # None THEN "done" ELSE "attach"
  /\ UNCHANGED <<calls, clock, rin, rlog, hvars, avars, pvars>>

\* if (attachments.length > 0) processAttachments, inside its own try/catch
RAttach ==
  /\ rpc = "attach"
  /\ rst' = [rst EXCEPT !.processedAttachments =
                          IF Len(rst.attachments) > 0
                          THEN ProcessAttachmentsFrom(rst.attachments, <<>>) ELSE <<>>]
  /\ rpc' = "s3"
  /\ UNCHANGED <<calls, clock, rin, rlog, hvars, avars, pvars>>

\* A pipeline that goes on to the queue after a failed S3 put
RStore_Continue(ok) ==
  /\ rpc = "s3"
  /\ rlog' = IF ok
             THEN Append(rlog, Effect("s3put", clock,
                           [key |-> S3Key(rin.emailData, clock),
                            body |-> ProcessedEmail(rin.emailData, rst, clock)]))
             ELSE rlog
  /\ rst' = [rst EXCEPT !.s3Key = S3Key(rin.emailData, clock)]
  /\ rpc' = "queueUrl"
  /\ UNCHANGED <<calls, clock, rin, hvars, avars, pvars>>

\* processedEmail and s3Key are built; await s3Client.send(PutObjectCommand)
RStore(ok) ==
  /\ rpc = "s3"
  /\ IF ok
     THEN /\ rlog' = Append(rlog, Effect("s3put", clock,
                              [key |-> S3Key(rin.emailData, clock),
                               body |-> ProcessedEmail(rin.emailData, rst, clock)]))
          /\ rst' = [rst EXCEPT !.s3Key = S3Key(rin.emailData, clock)]
          /\ rpc' = "queueUrl"
     ELSE /\ rlog' = rlog
          /\ rst' = Failed([rst EXCEPT !.s3Key = S3Key(rin.emailData, clock)], "S3 put failed")
          /\ rpc' = "done"
  /\ UNCHANGED <<calls, clock, rin, hvars, avars, pvars>>

\* const queueUrl = await getSqsQueueUrl()
RQueueUrl(ok) ==
  /\ rpc = "queueUrl"
  /\ IF rin.config.sqsQueueUrl \/ ok
     THEN rst' = rst /\ rpc' = "sqs"
     ELSE rst' = Failed(rst, "Failed to get SQS queue URL") /\ rpc' = "done"
  /\ UNCHANGED <<calls, clock, rin, rlog, hvars, avars, pvars>>

\* await sqsClient.send(SendMessageCommand)
RSend(ok) ==
  /\ rpc = "sqs"
  /\ IF ok
     THEN /\ rlog' = Append(rlog, Effect("sqs", clock,
                              [messageId |-> rin.emailData.messageId, s3Key |-> rst.s3Key]))
          /\ rst' = rst
          /\ rpc' = "hook"
     ELSE /\ rlog' = rlog
          /\ rst' = Failed(rst, "SQS send failed")
          /\ rpc' = "done"
  /\ UNCHANGED <<calls, clock, rin, hvars, avars, pvars>>

\* The processing webhook in its own try/catch, then return { success: true }
RHook(answer) ==
  /\ rpc = "hook"
  /\ rlog' = IF rin.config.webhookUrl
             THEN Append(rlog, Effect("webhook", clock,
                                      [type |-> "email_processed", answer |-> answer]))
             ELSE rlog
  /\ rst' = [rst EXCEPT !.result = Some([success |-> TRUE, error |-> ""])]
  /\ rpc' = "done"
  /\ UNCHANGED <<calls, clock, rin, hvars, avars, pvars>>

NextPipeline ==
  \/ \E emailData \in EmailDatas, config \in Configs : RStart(emailData, config)
  \/ \E answer \in FetchAnswers : RReceipt(answer)
  \/ \E parsed \in PipelineMimes, suffix \in RandomSuffixes : RParse(parsed, suffix)
  \/ RAttach
  \/ \E ok \in BOOLEAN : RStore(ok)
  \/ \E ok \in BOOLEAN : RQueueUrl(ok)
  \/ \E ok \in BOOLEAN : RSend(ok)
  \/ \E answer \in FetchAnswers : RHook(answer)
  \/ Tick

SpecPipeline == Init /\ [][NextPipeline]_vars

(***************************************************************************)
(* Several calls in flight on one EmailParser, one AttachmentProcessor and *)
(* one ParsingErrorHandler. A call owns its arguments and its local        *)
(* variables; the classes have no fields. Each step runs one call from one *)
(* await to the next.                                                      *)
(***************************************************************************)
\* The arguments the calls are started with.
ConcurrentAttachments ==
  {a \in Attachments :
     /\ a.cid = None
     /\ \/ a.filename = <<"a", ".ics">> /\ a.contentType = <<"text/calendar">>
             /\ a.content = <<"corrupted">>
        \/ a.filename = <<"a", ".xyz">> /\ a.contentType = <<"image/", "png">>
             /\ a.content = PngHeader100}

ConcurrentInputs(op) ==
  CASE op = "parseEmail" ->
         {[size |-> 9, parsed |-> m, suffix |-> <<"k3x9">>] :
            m \in {RejectedMime} \cup {x \in ExtraMimes : x.subject # <<>> /\ Len(x.subject) = 4}}
    [] op = "processAttachment" -> ConcurrentAttachments
    [] op = "processAttachments" ->
         {b \in SeqUpTo(ConcurrentAttachments, MaxBatch) : Len(b) = 2 /\ b[1] # b[2]}
    [] op = "handleParsingError" ->
         {[data |-> [kind |-> "nullish", bytes |-> <<>>], fault |-> FALSE]}
         \cup {[data |-> [kind |-> "buffer", bytes |-> <<"Subject", ":", "Re", ":", " ", "Hi">>],
                fault |-> f] : f \in BOOLEAN}

Operations == {"parseEmail", "processAttachment", "processAttachments", "handleParsingError"}

\* The call as it stands at its first await.
StartCall(op, input) ==
  [IdleCall EXCEPT
     !.op = op, !.input = Some(input),
     !.pc = CASE op = "parseEmail" -> "await"
              [] op = "processAttachment" -> "ics"
              [] op = "processAttachments" -> "loop"
              [] op = "handleParsingError" -> "log",
     !.result = IF op = "processAttachment" THEN Some(InitialResult(input)) ELSE None,
     !.idx = IF op = "processAttachments" THEN 1 ELSE 0]

\* parseEmail after `await simpleParser(emailData)`
StepParseEmail(call, now) ==
  [call EXCEPT
     !.out = Some(ParseOutcome(call.input[1].parsed, call.input[1].size, now,
                               call.input[1].suffix)),
     !.reads = Append(@, now), !.pc = "done"]

\* processAttachment: the next `if (...) { result.metadata = await ... }`,
\* and after the last one the catch and `return result`
StepProcessAttachment(call) ==
  LET attachment == call.input[1]
      st == [result |-> call.result[1], thrown |-> call.thrown]
      after == CASE call.pc = "ics" ->
                      RunExtractor(st, IsCalendar(attachment), ProcessICSFile(attachment))
                 [] call.pc = "image" ->
                      RunExtractor(st, IsImage(attachment), ProcessImage(attachment))
                 [] call.pc = "document" ->
                      RunExtractor(st, IsDocument(attachment.contentType),
                                   ProcessDocument(attachment))
                 [] call.pc = "archive" ->
                      RunExtractor(st, IsArchive(attachment.contentType),
                                   ProcessArchive(attachment))
  IN [call EXCEPT
        !.result = Some(after.result), !.thrown = after.thrown,
        !.out = IF call.pc = "archive" THEN Some(CatchExtractorError(after)) ELSE None,
        !.pc = CASE call.pc = "ics" -> "image"
                 [] call.pc = "image" -> "document"
                 [] call.pc = "document" -> "archive"
                 [] call.pc = "archive" -> "done"]

\* processAttachments: one iteration of the loop on its local results, or the return
StepProcessAttachments(call) ==
  IF call.idx <= Len(call.input[1])
  THEN [call EXCEPT
          !.results = PushResult(@, call.input[1][call.idx],
                                 ProcessAttachment(call.input[1][call.idx])),
          !.idx = @ + 1]
  ELSE [call EXCEPT !.out = Some(call.results), !.pc = "done"]

\* handleParsingError: the log, the Tier-1 attempt, the Tier-2 record
StepHandleParsingError(call, now) ==
  LET data == call.input[1].data
  IN CASE call.pc = "log" ->
            IF LogOutcome(data, now).status = "raised"
            THEN [call EXCEPT !.out = Some(LogOutcome(data, now)),
                              !.reads = Append(@, now), !.pc = "done"]
            ELSE [call EXCEPT !.reads = Append(@, now), !.pc = "tier1"]
       [] call.pc = "tier1" ->
            IF call.input[1].fault \/ ExtractBasicInfoThrows(data)
            THEN [call EXCEPT !.reads = Append(@, now), !.pc = "tier2"]
            ELSE [call EXCEPT !.out = Some(Returned(ExtractBasicInfo(data, now), now)),
                              !.reads = Append(@, now), !.pc = "done"]
       [] call.pc = "tier2" ->
            [call EXCEPT !.out = Some(Returned(CreateMinimalEmail(data, now), now)),
                         !.reads = Append(@, now), !.pc = "done"]

StepCall(call, now) ==
  CASE call.op = "parseEmail" -> StepParseEmail(call, now)
    [] call.op = "processAttachment" -> StepProcessAttachment(call)
    [] call.op = "processAttachments" -> StepProcessAttachments(call)
    [] call.op = "handleParsingError" -> StepHandleParsingError(call, now)

\* A call is made while others may be in flight.
CStart(id, op, input) ==
  /\ hpc = "idle" /\ apc = "idle" /\ ppc = "idle" /\ rpc = "idle"
  /\ calls[id].pc = "idle"
  /\ calls' = [calls EXCEPT ![id] = StartCall(op, input)]
  /\ UNCHANGED <<clock, hvars, avars, pvars, rvars>>

\* An AttachmentProcessor that keeps the results list of processAttachments
\* on the instance: every call in flight sees the list the last step wrote
CStep_ResultsOnInstance(id) ==
  /\ calls[id].pc \notin {"idle", "done"}
  /\ calls' = [c \in CallIds |->
                 IF c = id THEN StepCall(calls[id], clock)
                 ELSE IF calls[id].op = "processAttachments"
                           /\ calls[c].op = "processAttachments" /\ calls[c].pc # "done"
                 THEN [calls[c] EXCEPT !.results = StepCall(calls[id], clock).results]
                 ELSE calls[c]]
  /\ UNCHANGED <<clock, hvars, avars, pvars, rvars>>

\* The call resumes and runs to its next await or to its end; the other
\* calls' frames are not in its reach.
CStep(id) ==
  /\ calls[id].pc \notin {"idle", "done"}
  /\ calls' = [calls EXCEPT ![id] = StepCall(calls[id], clock)]
  /\ UNCHANGED <<clock, hvars, avars, pvars, rvars>>

NextConcurrent ==
  \/ \E id \in CallIds, op \in Operations :
       \E input \in ConcurrentInputs(op) : CStart(id, op, input)
  \/ \E id \in CallIds : CStep(id)
  \/ Tick

SpecConcurrent == Init /\ [][NextConcurrent]_vars

(***************************************************************************)
(* Properties of ParsingErrorHandler.                                      *)
(***************************************************************************)
\* C1: handleParsingError always completes by returning a ParsedEmail and
\* never raises, whatever its input and at whichever of its steps (the
\* logging call, Tier 1, Tier 2).
C1_NeverRaises == hpc = "done" => hout.status = "returned"

\* C6: handleParsingError returns the Tier-2 minimal record only if
\* extractBasicInfo threw, and otherwise returns what extractBasicInfo
\* returned, unchanged; the minimal record is minimal-<timestamp>, empty
\* from, no recipients, empty subject and body, no attachments, no headers,
\* the current time as date and the input length as size.
C6_TierTwoOnlyOnTierOneFailure ==
  (hpc = "done" /\ hout.status = "returned") =>
    IF hfault \/ ExtractBasicInfoThrows(hdata)
    THEN /\ htier1 = None
         /\ hout.value[1] =
              [messageId |-> <<"minimal-", Stamp(hout.at)>>,
               from |-> [address |-> <<>>, name |-> <<>>, original |-> <<>>],
               to |-> <<>>,
               subject |-> <<>>,
               body |-> [normalized |-> <<>>],
               attachments |-> <<>>,
               headers |-> EmptyMap,
               date |-> [valid |-> TRUE, ms |-> hout.at],
               size |-> Len(hdata.bytes)]
    ELSE /\ htier1 # None
         /\ hout.value = htier1
         /\ hout.value[1].messageId[1] # "minimal-"

\* C6 witness: Tier 1 failed on a non-empty buffer and the minimal record
\* was returned after the clock had advanced.
C6_Witness ==
  /\ hpc = "done" /\ hout.status = "returned"
  /\ hfault /\ htier1 = None
  /\ Len(hdata.bytes) > 0 /\ hout.at > 1

TierOneReturned == hpc = "done" /\ hout.status = "returned" /\ htier1 # None

\* The lines of the input, trimmed, and the first blank one among them
TrimmedLines(bytes) ==
  [i \in 1..Len(Split(bytes, "\n")) |-> Trim(Split(bytes, "\n")[i])]
FirstBlank(lines) ==
  IF \E i \in 1..Len(lines) : lines[i] = <<>>
  THEN CHOOSE i \in 1..Len(lines) : lines[i] = <<>> /\ \A j \in 1..(i - 1) : lines[j] # <<>>
  ELSE Len(lines) + 1

\* The header lines: those before the first blank line that contain ':'
HeaderLineIndexes(lines) ==
  {i \in 1..(FirstBlank(lines) - 1) : Includes(lines[i], ":")}
KeyAt(lines, i) == ToLowerCase(Trim(SubSeq(lines[i], 1, IndexOf(lines[i], ":") - 1)))
ValueAt(lines, i) == Trim(SubSeq(lines[i], IndexOf(lines[i], ":") + 1, Len(lines[i])))

HeaderGiven(bytes, key) ==
  \E i \in HeaderLineIndexes(TrimmedLines(bytes)) : KeyAt(TrimmedLines(bytes), i) = key

\* The value of the last header line with the key ('' when there is none)
LastValue(bytes, key) ==
  IF HeaderGiven(bytes, key)
  THEN LET lines == TrimmedLines(bytes)
           last == CHOOSE i \in HeaderLineIndexes(lines) :
                     /\ KeyAt(lines, i) = key
                     /\ \A j \in HeaderLineIndexes(lines) : KeyAt(lines, j) = key => j <= i
       IN ValueAt(lines, last)
  ELSE <<>>

CommaCount(s) == Cardinality({i \in 1..Len(s) : s[i] = ","})

\* What the record of Tier 1 holds apart from its message id
TierOneFields(record, bytes) ==
  /\ record.subject = LastValue(bytes, <<"subject">>)
  /\ record.body = [normalized |-> <<>>]
  /\ record.attachments = <<>>
  /\ record.headers = ExtractHeaders([kind |-> "buffer", bytes |-> bytes])
  /\ record.size = Len(bytes)
  /\ IF LastValue(bytes, <<"from">>) = <<>>
     THEN record.from = [address |-> <<>>, name |-> <<>>, original |-> <<>>]
     ELSE /\ record.from.original = LastValue(bytes, <<"from">>)
          /\ record.from.address = ToLowerCase(record.from.address)
  /\ IF LastValue(bytes, <<"to">>) = <<>>
     THEN record.to = <<>>
     ELSE Len(record.to) = CommaCount(LastValue(bytes, <<"to">>)) + 1

\* C26 as stated: the Tier-1 record has the Message-ID header value as
\* messageId, or 'unknown' when no such header was scanned, and from, to,
\* subject, body, attachments, headers and size as scanned.
C26_TierOneRecord ==
  TierOneReturned =>
    /\ hout.value[1].messageId =
         IF HeaderGiven(hdata.bytes, <<"message-id">>)
         THEN LastValue(hdata.bytes, <<"message-id">>) ELSE <<"unknown">>
    /\ TierOneFields(hout.value[1], hdata.bytes)

\* C26, amended: messageId is 'unknown' also when the Message-ID header was
\* scanned with an empty value.
C26_TierOneRecordNonEmptyId ==
  TierOneReturned =>
    /\ hout.value[1].messageId =
         IF LastValue(hdata.bytes, <<"message-id">>) # <<>>
         THEN LastValue(hdata.bytes, <<"message-id">>) ELSE <<"unknown">>
    /\ hout.value[1].messageId # <<>>
    /\ TierOneFields(hout.value[1], hdata.bytes)

\* C26 witness: Tier 1 returned for an input whose Message-ID header is empty
\* and whose Subject header is not.
C26_Witness ==
  /\ TierOneReturned
  /\ HeaderGiven(hdata.bytes, <<"message-id">>)
  /\ LastValue(hdata.bytes, <<"message-id">>) = <<>>
  /\ hout.value[1].messageId = <<"unknown">>
  /\ hout.value[1].subject = <<"Re", ":", " ", "Hi">>

\* C27: the header map of Tier 1 has, for every line before the first blank
\* line that contains ':', the lowercased trimmed text before the first ':'
\* as key and the trimmed text after it as value, the last value of a
\* repeated key, and nothing else.
C27_HeaderMap ==
  TierOneReturned =>
    LET lines == TrimmedLines(hdata.bytes)
        headers == hout.value[1].headers
    IN /\ DOMAIN headers = {KeyAt(lines, i) : i \in HeaderLineIndexes(lines)}
       /\ \A key \in DOMAIN headers : headers[key] = LastValue(hdata.bytes, key)

\* What parseEmailAddress makes of one trimmed segment without line breaks:
\* "name <addr>" when a '<' stands after the first position and the segment
\* ends with '>' after at least one more token; otherwise a bare address
SegmentEntry(seg) ==
  IF seg = <<>> THEN [address |-> <<>>, name |-> <<>>, original |-> <<>>]
  ELSE IF /\ seg[Len(seg)] = ">"
          /\ \E i \in 2..(Len(seg) - 2) : seg[i] = "<"
  THEN LET i == CHOOSE i \in 2..(Len(seg) - 2) :
                  seg[i] = "<" /\ \A j \in 2..(i - 1) : seg[j] # "<"
       IN [address |-> ToLowerCase(Trim(SubSeq(seg, i + 1, Len(seg) - 1))),
           name |-> Trim(SubSeq(seg, 1, i - 1)),
           original |-> seg]
  ELSE [address |-> ToLowerCase(seg), name |-> <<>>, original |-> seg]

\* C28: the to list of Tier 1 has one entry per comma-separated segment of
\* the To header, in order, and is empty for an empty value; each entry has
\* the trimmed lowercase mailbox as address, the trimmed display name or ''
\* as name, and the trimmed segment as original.
C28_AddressListSplit ==
  TierOneReturned =>
    LET value == LastValue(hdata.bytes, <<"to">>)
        to == hout.value[1].to
    IN IF value = <<>> THEN to = <<>>
       ELSE /\ Len(to) = Len(Split(value, ","))
            /\ \A i \in 1..Len(to) :
                 AllDot(value, 1, Len(value)) =>
                   to[i] = SegmentEntry(Trim(Split(value, ",")[i]))

\* C28 witness: a To header with a named mailbox, a mailbox in angle brackets
\* only and an empty last segment gave three entries.
C28_Witness ==
  /\ TierOneReturned
  /\ Len(hout.value[1].to) = 3
  /\ hout.value[1].to[1] =
       [address |-> <<"a@x">>, name |-> <<"Al">>,
        original |-> <<"Al", " ", "<", " ", "A@X", ">">>]
  /\ hout.value[1].to[2].address = <<"<", "b@x", ">">>
  /\ hout.value[1].to[3] = [address |-> <<>>, name |-> <<>>, original |-> <<>>]

\* C29: every record handleParsingError returns has a valid date: the time of
\* the Date header when one was scanned, whatever its text, and the current
\* time otherwise.
C29_DateWellFormed ==
  (hpc = "done" /\ hout.status = "returned") =>
    /\ hout.value[1].date.valid
    /\ (htier1 = None \/ ~HeaderGiven(hdata.bytes, <<"date">>)) =>
         hout.value[1].date.ms = hout.at

(***************************************************************************)
(* Properties of AttachmentProcessor.                                      *)
(***************************************************************************)
\* An extractor throws on this attachment: it is taken for a calendar file,
\* its text is not blank, and no VEVENT block closes in it.
ExtractionThrows(attachment) ==
  /\ IsCalendar(attachment)
  /\ Trim(attachment.content) # <<>>
  /\ ParseICSContent(attachment.content) = <<>>

\* The result carries the attachment's own fields.
SameAttachment(result, attachment) ==
  /\ result.filename = attachment.filename
  /\ result.contentType = attachment.contentType
  /\ result.size = attachment.size
  /\ result.content = attachment.content
  /\ result.cid = attachment.cid
  /\ result.isInline = attachment.isInline

\* C2: for every attachment, processAttachment returns a ProcessedAttachment
\* and lets no exception through; when an extractor throws, the result's
\* error field holds the exception's message.
C2_ProcessAttachmentReturns ==
  apc = "done1" =>
    /\ aout.status = "returned"
    /\ SameAttachment(aout.value[1], abatch[1])
    /\ ExtractionThrows(abatch[1]) =>
         aout.value[1].error = Some("Invalid or corrupted ICS file")

\* C2 witness: a direct call on an attachment whose extractor threw.
C2_Witness ==
  /\ apc = "done1" /\ ExtractionThrows(abatch[1])
  /\ aout.status = "returned" /\ aout.value[1].error # None

\* C3: processAttachments returns one result per attachment, in input
\* order; an item whose extraction throws has processed = false and an
\* error, and every item's result is what processAttachment gives for that
\* item on its own.
C3_BatchIsolation ==
  apc = "done" =>
    /\ Len(aresults) = Len(abatch)
    /\ \A i \in 1..Len(abatch) :
         /\ i <= Len(aresults)
         /\ SameAttachment(aresults[i], abatch[i])
         /\ ExtractionThrows(abatch[i]) =>
              (aresults[i].processed = FALSE /\ aresults[i].error # None)
         /\ aresults[i] = ProcessAttachment(abatch[i]).value[1]

\* C3 witness: a finished batch whose first item threw and whose last item
\* was processed normally.
C3_Witness ==
  /\ apc = "done" /\ Len(abatch) >= 2 /\ Len(aresults) = Len(abatch)
  /\ ExtractionThrows(abatch[1]) /\ aresults[1].error # None
  /\ aresults[Len(abatch)].processed /\ aresults[Len(abatch)].error = None

\* C12: in every result of processAttachment, an extractor exception leaves
\* processed = false and error = the exception's message, and no result (of a
\* direct call or of a batch) has both processed = true and an error.
C12_ErrorMeansUnprocessed ==
  /\ (apc = "done1" /\ aout.status = "returned") =>
       /\ ExtractionThrows(abatch[1]) =>
            /\ aout.value[1].processed = FALSE
            /\ aout.value[1].error = Some("Invalid or corrupted ICS file")
       /\ ~(aout.value[1].processed /\ aout.value[1].error # None)
  /\ \A i \in 1..Len(aresults) : ~(aresults[i].processed /\ aresults[i].error # None)

\* C12 witness: the calendar extractor threw on an attachment that a later
\* category matches as well.
C12_Witness ==
  /\ apc = "done1" /\ aout.status = "returned"
  /\ ExtractionThrows(abatch[1]) /\ IsDocument(abatch[1].contentType)
  /\ aout.value[1].processed = FALSE /\ aout.value[1].error # None

NoCategory(attachment) ==
  /\ ~IsCalendar(attachment) /\ ~IsImage(attachment)
  /\ ~IsDocument(attachment.contentType) /\ ~IsArchive(attachment.contentType)

\* C13: an attachment that matches no category comes back with metadata = {},
\* processed = false, no error, and its own fields unchanged.
C13_UnknownTypeUntouched ==
  (apc = "done1" /\ NoCategory(abatch[1])) =>
    /\ aout.status = "returned"
    /\ aout.value[1].metadata = EmptyMap
    /\ aout.value[1].processed = FALSE
    /\ aout.value[1].error = None
    /\ SameAttachment(aout.value[1], abatch[1])

C13_Witness ==
  /\ apc = "done1" /\ NoCategory(abatch[1]) /\ abatch[1].content # <<>>
  /\ EndsWith(abatch[1].filename, ".pdf")
  /\ aout.status = "returned" /\ aout.value[1].processed = FALSE

\* The lines of an ICS text as the reader of the format sees them, and what
\* makes its VEVENT blocks well formed: BEGIN and END lines alternate,
\* starting with a BEGIN and ending with an END.
IcsLinesOf(content) ==
  [i \in 1..Len(Split(content, "\n")) |-> Trim(Split(content, "\n")[i])]

BeginLine == <<"BEGIN", ":", "VEVENT">>
EndLine == <<"END", ":", "VEVENT">>

CountUpTo(lines, marker, k) == Cardinality({i \in 1..k : lines[i] = marker})

WellFormedBlocks(lines) ==
  /\ \A k \in 1..Len(lines) :
       CountUpTo(lines, BeginLine, k) - CountUpTo(lines, EndLine, k) \in {0, 1}
  /\ CountUpTo(lines, BeginLine, Len(lines)) = CountUpTo(lines, EndLine, Len(lines))

BlockCount(lines) == CountUpTo(lines, EndLine, Len(lines))

\* index of the k-th line equal to marker
KthLine(lines, marker, k) ==
  CHOOSE i \in 1..Len(lines) : lines[i] = marker /\ CountUpTo(lines, marker, i) = k

\* the lines strictly inside the k-th block
BlockLines(lines, k) ==
  SubSeq(lines, KthLine(lines, BeginLine, k) + 1, KthLine(lines, EndLine, k) - 1)

\* some line of the block names the property (any case, parameters after ';'
\* ignored) and has a non-empty value after its first ':'
PropertyPresent(block, field) ==
  \E i \in 1..Len(block) :
    /\ Includes(block[i], ":")
    /\ EventField(ToUpperCase(StripParams(SubSeq(block[i], 1, IndexOf(block[i], ":") - 1))))
         = field
    /\ Trim(SubSeq(block[i], IndexOf(block[i], ":") + 1, Len(block[i]))) # <<>>

CalendarResultFor(result, content) ==
  (WellFormedBlocks(IcsLinesOf(content)) /\ BlockCount(IcsLinesOf(content)) >= 1) =>
    /\ result.processed /\ result.error = None
    /\ result.metadata.type = "calendar"
    /\ Len(result.metadata.events) = BlockCount(IcsLinesOf(content))
    /\ \A k \in 1..Len(result.metadata.events) :
         \A f \in DOMAIN result.metadata.events[k] :
           PropertyPresent(BlockLines(IcsLinesOf(content), k), f)

OnlyCalendar(attachment) ==
  /\ IsCalendar(attachment) /\ ~IsImage(attachment)
  /\ ~IsDocument(attachment.contentType) /\ ~IsArchive(attachment.contentType)

BytesAt(content, from, bytes) ==
  /\ Len(content) >= from + Len(bytes)
  /\ SubSeq(content, from + 1, from + Len(bytes)) = bytes

\* Value of the bytes b1 b2 b3 b4, most significant first
BigEndian32(b) == ((ByteVal(b[1]) * 256 + ByteVal(b[2])) * 256 + ByteVal(b[3])) * 256 + ByteVal(b[4])

\* Value of the bytes b1 b2, least significant first
LittleEndian16(b) == ByteVal(b[2]) * 256 + ByteVal(b[1])

ImageExtracted ==
  apc = "done1" /\ IsImage(abatch[1]) /\ ~ExtractionThrows(abatch[1])

\* C18: image extraction returns for every buffer; a PNG signature gives
\* 'png' with the big-endian 32-bit values at offsets 16 and 20 when 24 bytes
\* are there and 0x0 otherwise (100x100 for the 100x100 header); a JPEG
\* signature gives 'jpeg' 0x0; a GIF signature gives 'gif' with the
\* little-endian 16-bit values at offsets 6 and 8 when 10 bytes are there;
\* anything else, and anything under 4 bytes, gives 'unknown' 0x0.
C18_ImageDimensions ==
  ImageExtracted =>
    LET c == abatch[1].content
        m == aout.value[1].metadata
    IN /\ aout.status = "returned"
       /\ aout.value[1].processed /\ aout.value[1].error = None
       /\ m.type = "image" /\ m.size = abatch[1].size
       /\ IF BytesAt(c, 0, <<"0x89", "0x50", "0x4E", "0x47">>)
          THEN /\ m.format = "png"
               /\ IF Len(c) >= 24
                  THEN /\ m.width = BigEndian32(SubSeq(c, 17, 20))
                       /\ m.height = BigEndian32(SubSeq(c, 21, 24))
                  ELSE m.width = 0 /\ m.height = 0
          ELSE IF Len(c) >= 4 /\ BytesAt(c, 0, <<"0xFF", "0xD8">>)
          THEN m.format = "jpeg" /\ m.width = 0 /\ m.height = 0
          ELSE IF Len(c) >= 4 /\ BytesAt(c, 0, <<"0x47", "0x49", "0x46">>)
          THEN /\ m.format = "gif"
               /\ IF Len(c) >= 10
                  THEN /\ m.width = LittleEndian16(SubSeq(c, 7, 8))
                       /\ m.height = LittleEndian16(SubSeq(c, 9, 10))
                  ELSE m.width = 0 /\ m.height = 0
          ELSE m.format = "unknown" /\ m.width = 0 /\ m.height = 0
       /\ c = PngHeader100 => (m.width = 100 /\ m.height = 100)

\* C18 witness: the 100x100 PNG header was read as 100 by 100.
C18_Witness ==
  /\ ImageExtracted /\ abatch[1].content = PngHeader100
  /\ aout.value[1].metadata.format = "png"
  /\ aout.value[1].metadata.width = 100 /\ aout.value[1].metadata.height = 100

\* The categories the attachment matches, as the tests at the four ifs see it
Categories(attachment) ==
  (IF IsCalendar(attachment) THEN {"calendar"} ELSE {})
    \cup (IF IsImage(attachment) THEN {"image"} ELSE {})
    \cup (IF IsDocument(attachment.contentType) THEN {"document"} ELSE {})
    \cup (IF IsArchive(attachment.contentType) THEN {"archive"} ELSE {})

\* The metadata type that names a category's extractor
TypesOf(category) ==
  CASE category = "calendar" -> {"calendar"}
    [] category = "image" -> {"image"}
    [] category = "document" -> {"pdf", "docx", "document"}
    [] category = "archive" -> {"archive"}

\* The last of the matching categories in the order calendar, image,
\* document, archive
LastCategory(attachment) ==
  IF "archive" \in Categories(attachment) THEN "archive"
  ELSE IF "document" \in Categories(attachment) THEN "document"
  ELSE IF "image" \in Categories(attachment) THEN "image"
  ELSE "calendar"

MultiCategory ==
  apc = "done1" /\ aout.status = "returned" /\ Cardinality(Categories(abatch[1])) >= 2

\* C22 as stated: an attachment matching several categories has every
\* matching extractor run and ends with processed = true and the metadata of
\* the last matching one.
C22_LastWriterWins ==
  MultiCategory =>
    /\ aout.value[1].processed
    /\ aout.value[1].metadata # EmptyMap
    /\ aout.value[1].metadata.type \in TypesOf(LastCategory(abatch[1]))

\* C22, amended: that holds unless the calendar extractor throws; then no
\* later extractor runs and the result has metadata {}, processed = false
\* and the error.
C22_LastWriterWinsUnlessThrown ==
  MultiCategory =>
    IF ExtractionThrows(abatch[1])
    THEN /\ aout.value[1].processed = FALSE
         /\ aout.value[1].metadata = EmptyMap
         /\ aout.value[1].error = Some("Invalid or corrupted ICS file")
    ELSE /\ aout.value[1].processed
         /\ aout.value[1].error = None
         /\ aout.value[1].metadata # EmptyMap
         /\ aout.value[1].metadata.type \in TypesOf(LastCategory(abatch[1]))
         /\ "archive" \in Categories(abatch[1]) =>
              aout.value[1].metadata.compressedSize = abatch[1].size

\* C22 witness: a.ics with content type application/zip and a readable
\* calendar inside ends with archive metadata.
C22_Witness ==
  /\ MultiCategory /\ ~ExtractionThrows(abatch[1])
  /\ abatch[1].filename = <<"a", ".ics">> /\ abatch[1].contentType = <<"application/zip">>
  /\ ParseICSContent(abatch[1].content) # <<>>
  /\ aout.value[1].processed /\ aout.value[1].metadata.type = "archive"

\* C23: processAttachments works through the batch one item at a time:
\* between two steps the items before aidx, and only they, have their result
\* in the list, in input order, so the list is a prefix of the final list and
\* the item at aidx is the only one whose extraction can be under way.
C23_SequentialBatch ==
  apc \in {"loop", "done"} =>
    /\ aidx <= Len(abatch) + 1
    /\ Len(aresults) = aidx - 1
    /\ \A i \in 1..Len(aresults) :
         /\ i <= Len(abatch)
         /\ SameAttachment(aresults[i], abatch[i])
         /\ aresults[i] = ProcessAttachmentsFrom(abatch, <<>>)[i]
    /\ apc = "done" => aresults = ProcessAttachmentsFrom(abatch, <<>>)

\* C23 witness: the loop stands between the first and the second item of a
\* batch of two different attachments, with the first result in the list.
C23_Witness ==
  /\ apc = "loop" /\ Len(abatch) = 2 /\ abatch[1] # abatch[2]
  /\ aidx = 2 /\ Len(aresults) = 1
  /\ SameAttachment(aresults[1], abatch[1])

\* The END:VEVENT lines reached while a block is open: a BEGIN:VEVENT
\* stands before them with no END:VEVENT in between
Closings(lines) ==
  {i \in 1..Len(lines) :
     /\ lines[i] = EndLine
     /\ \E j \in 1..(i - 1) :
          lines[j] = BeginLine /\ \A m \in (j + 1)..(i - 1) : lines[m] # EndLine}

\* The k-th closing, and the BEGIN:VEVENT nearest before a closing
KthClosing(lines, k) ==
  CHOOSE i \in Closings(lines) : Cardinality({c \in Closings(lines) : c <= i}) = k
NearestBegin(lines, i) ==
  CHOOSE j \in 1..(i - 1) :
    lines[j] = BeginLine /\ \A m \in (j + 1)..(i - 1) : lines[m] # BeginLine

\* A line names the field and has text between its first ':' and the next
Captures(line, field) ==
  /\ Includes(line, ":")
  /\ EventField(ToUpperCase(StripParams(SubSeq(line, 1, IndexOf(line, ":") - 1)))) = field
  /\ Trim(Split(line, ":")[2]) # <<>>

EventFields == {"summary", "start", "end", "location", "description"}

CalendarRead ==
  /\ apc = "done1" /\ OnlyCalendar(abatch[1]) /\ aout.status = "returned"
  /\ aout.value[1].processed

\* C24: the calendar result has one event per END:VEVENT reached while a
\* block is open, in order; a closing with no open block, a block open at the
\* end of the input and property lines outside a block give nothing; each
\* event holds the fields of the lines between the nearest BEGIN:VEVENT
\* before its closing and the closing, and none captured before a restart.
C24_FlatEventBoundary ==
  (apc = "done1" /\ OnlyCalendar(abatch[1]) /\ aout.status = "returned") =>
    LET lines == IcsLinesOf(abatch[1].content)
        result == aout.value[1]
    IN IF Closings(lines) = {} /\ Trim(abatch[1].content) # <<>>
       THEN result.processed = FALSE /\ result.error # None
       ELSE /\ result.processed
            /\ Len(result.metadata.events) = Cardinality(Closings(lines))
            /\ \A k \in 1..Len(result.metadata.events) :
                 DOMAIN result.metadata.events[k] =
                   {f \in EventFields :
                      \E m \in (NearestBegin(lines, KthClosing(lines, k)) + 1)
                                 ..(KthClosing(lines, k) - 1) : Captures(lines[m], f)}

\* C24 witness: of the unbalanced calendar only the restarted block is
\* emitted, with the one field that follows the restart.
C24_Witness ==
  /\ CalendarRead /\ abatch[1].content = UnbalancedCalendar
  /\ Len(aout.value[1].metadata.events) = 1
  /\ DOMAIN aout.value[1].metadata.events[1] = {"location"}
  /\ aout.value[1].metadata.events[1].location = <<"L">>

\* The last line between the nearest BEGIN:VEVENT and the closing that
\* captures the field
LastCapture(lines, from, to, field) ==
  CHOOSE m \in (from + 1)..(to - 1) :
    /\ Captures(lines[m], field)
    /\ \A n \in (m + 1)..(to - 1) : ~Captures(lines[n], field)

\* C25: every captured value is the whole trimmed text after the first ':'
\* of its line, later ':' characters included.
C25_WholeValueCaptured ==
  CalendarRead =>
    LET lines == IcsLinesOf(abatch[1].content)
        events == aout.value[1].metadata.events
    IN \A k \in 1..Len(events) :
         \A f \in DOMAIN events[k] :
           LET line == lines[LastCapture(lines, NearestBegin(lines, KthClosing(lines, k)),
                                         KthClosing(lines, k), f)]
           IN events[k][f] = Trim(SubSeq(line, IndexOf(line, ":") + 1, Len(line)))

(***************************************************************************)
(* Properties of EmailParser.                                              *)
(***************************************************************************)
AddressPresent(field) ==
  \E i \in 1..Len(ExtractAddressValue(field)) : ExtractAddressValue(field)[i].address # <<>>

\* C4: once the decomposition has resolved, parseEmail rejects exactly when no
\* from address, no to address (anywhere in the To list), no subject and no
\* text/html body is present, and returns a ParsedEmail in every other case.
C4_RejectsExactlyWhenNothingPresent ==
  (ppc = "done" /\ pmime.ok) =>
    (pout.status = "raised" <=>
       /\ ~AddressPresent(pmime.from)
       /\ ~AddressPresent(pmime.to)
       /\ pmime.subject = <<>>
       /\ pmime.text = <<>> /\ pmime.html = <<>>)

\* C5: every failure of parseEmail is an EmailParsingError that carries both
\* the underlying cause and a context.
C5_FailureCarriesCauseAndContext ==
  (ppc = "done" /\ pout.status = "raised") =>
    /\ pout.error[1].name = "EmailParsingError"
    /\ pout.error[1].cause # None
    /\ pout.error[1].context # None

ReturnedAddresses(email) ==
  {email.from} \cup {email.to[i] : i \in 1..Len(email.to)}
    \cup {email.cc[i] : i \in 1..Len(email.cc)} \cup {email.bcc[i] : i \in 1..Len(email.bcc)}

\* C9: every EmailAddress of a returned ParsedEmail has a lowercase, trimmed
\* address and, when the address is non-empty, a non-empty original.
C9_AddressesCanonical ==
  (ppc = "done" /\ pout.status = "returned") =>
    \A a \in ReturnedAddresses(pout.value[1]) :
      /\ a.address = ToLowerCase(a.address)
      /\ a.address = Trim(a.address)
      /\ (a.address # <<>> => a.original # <<>>)

\* C10: every returned ParsedEmail has a non-empty messageId: the Message-ID
\* header verbatim when the decomposition has a non-empty one, otherwise
\* msg-<timestamp>-<random suffix>.
C10_MessageIdPresent ==
  (ppc = "done" /\ pout.status = "returned") =>
    LET id == pout.value[1].messageId
        header == HGet(pmime.headers, <<"message-id">>)
    IN /\ id # <<>>
       /\ IF header # <<>> /\ header.val # <<>>
          THEN id = header.val
          ELSE /\ Len(id) >= 3
               /\ id[1] = "msg-" /\ id[2] = Stamp(pout.at) /\ id[3] = "-"
               /\ SubSeq(id, 4, Len(id)) \in RandomSuffixes

C10_Witness ==
  /\ ppc = "done" /\ pout.status = "returned"
  /\ HGet(pmime.headers, <<"message-id">>) # <<>>
  /\ HGet(pmime.headers, <<"message-id">>).val = <<>>
  /\ pout.at > 1
  /\ pout.value[1].messageId = <<"msg-", Stamp(pout.at), "-">>

\* C11: body.normalized of every returned ParsedEmail comes from the
\* plain-text part when that part is non-empty (whatever the HTML part is),
\* otherwise from the stripped HTML part when that is non-empty, otherwise it
\* is the empty string.
C11_NormalizedPrefersText ==
  (ppc = "done" /\ pout.status = "returned") =>
    LET normalized == pout.value[1].body.normalized
    IN IF pmime.text # <<>>
       THEN normalized = NormalizeBody([text |-> pmime.text, html |-> <<>>]).normalized
       ELSE IF pmime.html # <<>>
       THEN normalized =
              NormalizeBody([text |-> StripHtmlTags(pmime.html), html |-> <<>>]).normalized
       ELSE normalized = <<>>

C11_Witness ==
  /\ ppc = "done" /\ pout.status = "returned"
  /\ pmime.text # <<>> /\ pmime.html # <<>>
  /\ pout.value[1].body.normalized = <<"a", "\n", "b", "\n", "c", "\n", "\n", "d">>

DerivedFromHtml ==
  /\ ppc = "done" /\ pout.status = "returned"
  /\ pmime.text = <<>> /\ pmime.html # <<>>

\* position p of html lies inside a script or style block: after the '>' of
\* an opening tag and before the closing tag of the same name
InsideBlock(html, p) ==
  \E i \in 1..(p - 1), j \in 1..(p - 1), k \in (p + 1)..Len(html) :
    /\ i + 1 < j
    /\ html[i] = "<" /\ LowerTok(html[i + 1]) \in {"script", "style"}
    /\ html[j] = ">" /\ \A m \in (i + 2)..(j - 1) : html[m] # ">"
    /\ k + 3 <= Len(html)
    /\ html[k] = "<" /\ html[k + 1] = "/"
    /\ LowerTok(html[k + 2]) = LowerTok(html[i + 1]) /\ html[k + 3] = ">"
    /\ \A m \in (j + 1)..(p - 1) : ~(html[m] = "<" /\ html[m + 1] = "/")

\* C15: when body.normalized is derived from HTML, nothing that stood inside
\* a script or style block is left in it, whether the block is on one line
\* or spans several, and no tag is left in it.
C15_BlocksAndTagsRemoved ==
  DerivedFromHtml =>
    LET normalized == pout.value[1].body.normalized
    IN /\ \A p \in 1..Len(pmime.html) :
            (InsideBlock(pmime.html, p) /\ ~IsSpace(pmime.html[p])) =>
              \A q \in 1..Len(normalized) : normalized[q] # pmime.html[p]
       /\ ~Includes(pmime.html, "&") =>
            \A q \in 1..Len(normalized) : MatchAt("tag", normalized, q) = 0

\* C16: body.normalized holds no carriage return and no run of three
\* newlines, is trimmed, and "a\r\nb\rc\n\n\nd" becomes "a\nb\nc\n\nd".
C16_LineEndingsUnified ==
  (ppc = "done" /\ pout.status = "returned") =>
    LET normalized == pout.value[1].body.normalized
    IN /\ ~Includes(normalized, "\r")
       /\ \A q \in 1..Len(normalized) :
            ~(q + 2 <= Len(normalized) /\ normalized[q] = "\n"
                /\ normalized[q + 1] = "\n" /\ normalized[q + 2] = "\n")
       /\ normalized = Trim(normalized)
       /\ pmime.text = <<"a", "\r", "\n", "b", "\r", "c", "\n", "\n", "\n", "d">> =>
            normalized = <<"a", "\n", "b", "\n", "c", "\n", "\n", "d">>
       /\ (pmime.text # <<>> /\ ~Includes(pmime.text, "\r") /\ ~Includes(pmime.text, "\n")) =>
            normalized = Trim(pmime.text)

C16_Witness ==
  /\ ppc = "done" /\ pout.status = "returned"
  /\ pmime.text = <<"x", "\r", "\r", "\n", "\n", "y", "\n", " ", "\n", "\n", "\n", "\n", "z", "\r">>
  /\ pout.value[1].body.normalized =
       <<"x", "\n", "\n", "y", "\n", " ", "\n", "\n", "z">>

HasLeadingMarker(subject) ==
  Len(subject) >= 2 /\ LowerTok(subject[1]) \in {"re", "fwd", "fw"} /\ subject[2] = ":"

\* C17: the returned subject is the source subject without its one leading
\* Re:/Fwd:/Fw: marker (any case), trimmed and NFC-normalized; a nested
\* marker stays; without a leading marker only trimming and NFC apply; an
\* absent subject gives ''.
C17_OneMarkerStripped ==
  (ppc = "done" /\ pout.status = "returned") =>
    LET subject == pout.value[1].subject
    IN /\ IF pmime.subject = <<>> THEN subject = <<>>
          ELSE IF HasLeadingMarker(pmime.subject)
          THEN subject = Nfc(Trim(SubSeq(pmime.subject, 3, Len(pmime.subject))))
          ELSE subject = Nfc(Trim(pmime.subject))
       /\ pmime.subject = <<"Re", ":", " ", "Hello">> => subject = <<"Hello">>
       /\ pmime.subject = <<"Re", ":", " ", "Re", ":", " ", "Hello">> =>
            subject = <<"Re", ":", " ", "Hello">>

C17_Witness ==
  /\ ppc = "done" /\ pout.status = "returned"
  /\ pmime.subject = <<"Re", ":", " ", "Re", ":", " ", "Hello">>
  /\ pout.value[1].subject = <<"Re", ":", " ", "Hello">>

\* The character an entity of the fixed set stands for ("" : not of the set)
EntityChar(name) ==
  CASE name = "nbsp;" -> " "
    [] name = "amp;" -> "&"
    [] name = "lt;" -> "<"
    [] name = "gt;" -> ">"
    [] name = "quot;" -> "\""
    [] name = "#39;" -> "'"
    [] OTHER -> ""

\* Every entity of the source decoded once, decoded text never read again
RECURSIVE DecodeOnce(_)
DecodeOnce(s) ==
  IF s = <<>> THEN <<>>
  ELSE IF Len(s) >= 2 /\ s[1] = "&" /\ EntityChar(s[2]) # ""
  THEN <<EntityChar(s[2])>> \o DecodeOnce(SubSeq(s, 3, Len(s)))
  ELSE <<s[1]>> \o DecodeOnce(Tail(s))

\* C30: text derived from HTML has every entity of the fixed set decoded
\* exactly once; what a decoding produced is not decoded again ("&amp;lt;"
\* gives "&lt;").
C30_EntitiesDecodedOnce ==
  (/\ DerivedFromHtml
   /\ \A i \in 1..Len(pmime.html) : pmime.html[i] \notin {"<", "\r", "\n"}) =>
    pout.value[1].body.normalized = Trim(DecodeOnce(pmime.html))

(***************************************************************************)
(* Properties of processEmail.                                             *)
(***************************************************************************)
ParseStepDone == rpc \in {"attach", "s3", "queueUrl", "sqs", "hook", "done"}

EffectsOf(op) == {i \in 1..Len(rlog) : rlog[i].op = op}

C8_MalformedEmailDoesNotAbort ==
  (ParseStepDone /\ rst.parseFailed) =>
    /\ rst.parsedText = rin.emailData.body
    /\ rst.attachments = <<>> /\ rst.processedAttachments = <<>>
    /\ rpc = "done" =>
         /\ rst.result # None
         /\ ~rst.result[1].success =>
              /\ rst.result[1].error \in
                   {"S3 put failed", "Failed to get SQS queue URL", "SQS send failed"}
              /\ Cardinality(EffectsOf("s3put")) + Cardinality(EffectsOf("sqs")) < 2
         /\ rst.result[1].success =>
              \E i, j \in 1..Len(rlog) :
                /\ i < j
                /\ rlog[i].op = "s3put" /\ rlog[j].op = "sqs"
                /\ rlog[i].detail.key = rst.s3Key
                /\ rlog[j].detail.s3Key = rst.s3Key
                /\ rlog[j].detail.messageId = rin.emailData.messageId
                /\ rlog[i].detail.body.messageId = rin.emailData.messageId
                /\ rlog[i].detail.body.email.body = rin.emailData.body
                /\ rlog[i].detail.body.email.attachments = <<>>

C8_Witness ==
  /\ rpc = "done" /\ rst.parseFailed
  /\ rst.result # None /\ rst.result[1].success
  /\ Cardinality(EffectsOf("s3put")) = 1 /\ Cardinality(EffectsOf("sqs")) = 1

ReceiptAttempted == rpc \in {"parse", "attach", "s3", "queueUrl", "sqs", "hook", "done"}

\* C20: with a webhook URL configured, the email_received notification is
\* the first thing processEmail attempts: until it has been attempted nothing
\* is parsed, processed, stored or sent, and it is the first effect and the
\* only one of its type. Whatever its outcome, processing goes on from the
\* untouched locals, and a failure result never stems from it.
C20_ReceiptAttemptedFirst ==
  /\ rpc = "receipt" => (rlog = <<>> /\ rst = InitialLocals(rin.emailData))
  /\ rpc = "parse" => (rst = InitialLocals(rin.emailData) /\ Len(rlog) <= 1)
  /\ (ReceiptAttempted /\ rin.config.webhookUrl) =>
       /\ Len(rlog) >= 1
       /\ rlog[1].op = "webhook" /\ rlog[1].detail.type = "email_received"
       /\ \A i \in 2..Len(rlog) :
            /\ rlog[i].op = "webhook" => rlog[i].detail.type = "email_processed"
            /\ rlog[1].at <= rlog[i].at
  /\ (rpc = "done" /\ rin.config.webhookUrl /\ ~rst.result[1].success) =>
       rst.result[1].error \in
         {"S3 put failed", "Failed to get SQS queue URL", "SQS send failed"}
  /\ (rpc = "done" /\ rin.config.webhookUrl /\ rst.result[1].success) =>
       (EffectsOf("s3put") # {} /\ EffectsOf("sqs") # {})

\* C20 witness: the receipt webhook met a network error, and the email was
\* parsed, stored and enqueued all the same.
C20_Witness ==
  /\ rpc = "done" /\ rin.config.webhookUrl
  /\ rlog[1].op = "webhook" /\ rlog[1].detail.type = "email_received"
  /\ rlog[1].detail.answer = "error"
  /\ rst.parseCalled /\ rst.result[1].success
  /\ EffectsOf("s3put") # {} /\ EffectsOf("sqs") # {}

\* C21: an email_processed webhook is sent only after the S3 put and then the
\* SQS send naming the same key have both succeeded, and an SQS send only
\* after the S3 put; when the put, the queue lookup or the send fails, nothing
\* later is attempted, no email_processed webhook goes out, and processEmail
\* returns { success: false, error }.
C21_ProcessedAfterStoreAndQueue ==
  /\ \A k \in 1..Len(rlog) :
       (rlog[k].op = "webhook" /\ rlog[k].detail.type = "email_processed") =>
         \E i \in 1..(k - 1), j \in 1..(k - 1) :
           /\ i < j
           /\ rlog[i].op = "s3put" /\ rlog[j].op = "sqs"
           /\ rlog[j].detail.s3Key = rlog[i].detail.key
  /\ \A j \in 1..Len(rlog) :
       rlog[j].op = "sqs" =>
         \E i \in 1..(j - 1) : rlog[i].op = "s3put" /\ rlog[i].detail.key = rlog[j].detail.s3Key
  /\ rpc = "done" =>
       /\ rst.result # None
       /\ rst.thrown = None
       /\ ~rst.result[1].success =>
            /\ rst.result[1].error # ""
            /\ \A k \in 1..Len(rlog) :
                 rlog[k].op = "webhook" => rlog[k].detail.type = "email_received"
            /\ EffectsOf("s3put") = {} => EffectsOf("sqs") = {}
            /\ rst.result[1].error = "S3 put failed" => EffectsOf("s3put") = {}
            /\ rst.result[1].error \in {"Failed to get SQS queue URL", "SQS send failed"} =>
                 (EffectsOf("s3put") # {} /\ EffectsOf("sqs") = {})
       /\ (rst.result[1].success /\ rin.config.webhookUrl) =>
            /\ rlog[Len(rlog)].op = "webhook"
            /\ rlog[Len(rlog)].detail.type = "email_processed"

\* C21 witness: the record was stored, its key enqueued, and the processing
\* webhook sent last.
C21_Witness ==
  /\ rpc = "done" /\ rin.config.webhookUrl /\ rst.result[1].success
  /\ Len(rlog) = 4
  /\ rlog[2].op = "s3put" /\ rlog[3].op = "sqs"
  /\ rlog[3].detail.s3Key = rlog[2].detail.key
  /\ rlog[4].op = "webhook" /\ rlog[4].detail.type = "email_processed"

(***************************************************************************)
(* Properties of calls in flight together.                                 *)
(***************************************************************************)
\* What handleParsingError gives for these arguments when nothing else runs,
\* reading the clock at the given times
HandlerAlone(input, reads) ==
  IF LogOutcome(input.data, reads[1]).status = "raised"
  THEN LogOutcome(input.data, reads[1])
  ELSE IF input.fault \/ ExtractBasicInfoThrows(input.data)
  THEN Returned(CreateMinimalEmail(input.data, reads[3]), reads[3])
  ELSE Returned(ExtractBasicInfo(input.data, reads[2]), reads[2])

\* What the call gives when it is the only one in flight
RunAlone(call) ==
  CASE call.op = "parseEmail" ->
         ParseOutcome(call.input[1].parsed, call.input[1].size, call.reads[1],
                      call.input[1].suffix)
    [] call.op = "processAttachment" -> ProcessAttachment(call.input[1])
    [] call.op = "processAttachments" -> ProcessAttachmentsFrom(call.input[1], <<>>)
    [] call.op = "handleParsingError" -> HandlerAlone(call.input[1], call.reads)

IsolatedStep ==
  /\ \A id \in CallIds :
       /\ calls'[id].pc = "done" => calls'[id].out = Some(RunAlone(calls'[id]))
       /\ calls[id].pc # "idle" => calls'[id].input = calls[id].input
       /\ calls[id].pc = "done" => calls'[id] = calls[id]
  /\ \A id \in CallIds, other \in CallIds :
       (other # id /\ calls[id].pc # "idle" /\ calls'[id] # calls[id]) =>
         calls'[other] = calls[other]

\* C19: with several parseEmail, processAttachment, processAttachments and
\* handleParsingError calls in flight and interleaving at their awaits, every
\* call that finishes returns what it returns when run alone on its input,
\* and no step of one call changes another call's input, locals or output.
C19_CallsAreIsolated == [][IsolatedStep]_vars

\* C19 witness: two handleParsingError calls on different inputs that were in
\* flight over the same stretch of time and both returned their own result.
C19_Witness ==
  /\ calls[1].op = "handleParsingError" /\ calls[1].pc = "done"
  /\ calls[2].op = "handleParsingError" /\ calls[2].pc = "done"
  /\ calls[1].reads = <<1, 2>> /\ calls[2].reads = <<1, 2, 2>>
  /\ calls[1].out = Some(RunAlone(calls[1])) /\ calls[2].out = Some(RunAlone(calls[2]))
  /\ calls[1].out # calls[2].out

=============================================================================
